---- MODULE Spec2Model ----
(***************************************************************************)
(* octopt: the CHIP-8 options value and its two codecs, the structured     *)
(* (JSON) one of src/src/lib.rs and the flat (INI) one of src/src/ini.rs,  *)
(* with the colour codec of src/src/color.rs.  Both codecs go through      *)
(* serde_json: the flat one reads and writes the text of a JSON object     *)
(* with the dotted keys of octo.rc.                                        *)
(*                                                                         *)
(* Text is modelled as sequences of one-character strings, so formatting   *)
(* and parsing are computed and not assumed.  A document is a sequence of  *)
(* <<key, value>> pairs in document order.  Option<T> is <<>> (None) or    *)
(* <<v>> (Some(v)).                                                        *)
(***************************************************************************)
EXTENDS Integers, Sequences, FiniteSets, TLC

VARIABLES input, opt, res, out, encoded, last, steps, cross,
          colorValue, colorText, colorParsed, colorStep

\* The variables of the conversions of an Options value and those of the
\* conversions of a single Color.
optVars == <<input, opt, res, out, encoded, last, steps, cross>>
colorVars == <<colorValue, colorText, colorParsed, colorStep>>
vars == <<optVars, colorVars>>

(* ------------------------------------------------------------------ *)
(* Bounds                                                             *)
(* ------------------------------------------------------------------ *)

\* Longest chain of conversions applied after the first decode.
MaxSteps == 3

(* ------------------------------------------------------------------ *)
(* Option, Result                                                      *)
(* ------------------------------------------------------------------ *)

None == <<>>
Some(v) == <<v>>
IsSome(o) == Len(o) = 1
IsNone(o) == Len(o) = 0
Unwrap(o) == Head(o)

NoError == <<"none">>
NoValue == <<"novalue">>
Ok(v) == [ok |-> TRUE, val |-> v, err |-> NoError]
Err(e) == [ok |-> FALSE, val |-> NoValue, err |-> e]

\* The error kinds the decoders produce.
\* serde: de::Error::invalid_value(Unexpected::Unsigned(n), &"zero or one")
InvalidValueZeroOrOne(n) == <<"invalid_value_expected_zero_or_one", n>>
\* serde: "data did not match any variant of untagged enum <name>"
UntaggedNoMatch(name) == <<"untagged_no_match", name>>
\* color.rs: E::custom("Failed to parse hex color: <value>")
ColorError(s) == <<"failed_to_parse_hex_color", s>>
\* serde_repr: "invalid value: <n>, expected one of: 0, 90, 180, 270"
ReprError(n) == <<"invalid_repr_value", n>>
\* serde: unknown variant of a unit enum
UnknownVariant(s) == <<"unknown_variant", s>>
\* serde: a value of the wrong JSON type, or an integer out of the type's range
InvalidType(t) == <<"invalid_type", t>>
\* serde: "duplicate field `<key>`", a key of the struct given twice
DuplicateField(k) == <<"duplicate_field", k>>
\* serde_json: the text is no JSON value ("expected value", "EOF while
\* parsing a value")
JsonSyntaxError(s) == <<"json_syntax_error", s>>
\* a Rust panic (Option::unwrap / Result::unwrap on a failure)
Panic(s) == <<"panic", s>>

(* ------------------------------------------------------------------ *)
(* Characters                                                          *)
(* ------------------------------------------------------------------ *)

Digits == <<"0", "1", "2", "3", "4", "5", "6", "7", "8", "9">>
UpperHex == <<"0", "1", "2", "3", "4", "5", "6", "7", "8", "9",
              "A", "B", "C", "D", "E", "F">>

IsDigit(c) == \E i \in 1..10 : Digits[i] = c
DigitVal(c) == (CHOOSE i \in 1..10 : Digits[i] = c) - 1

Upper == <<"A", "B", "C", "D", "E", "F", "G", "H", "I", "J", "K", "L", "M",
           "N", "O", "P", "Q", "R", "S", "T", "U", "V", "W", "X", "Y", "Z">>
IsUpper(c) == \E i \in 1..26 : Upper[i] = c
ToLower(c) ==
   LET Lower == <<"a", "b", "c", "d", "e", "f", "g", "h", "i", "j", "k", "l", "m",
                  "n", "o", "p", "q", "r", "s", "t", "u", "v", "w", "x", "y", "z">>
   IN IF IsUpper(c) THEN Lower[CHOOSE i \in 1..26 : Upper[i] = c] ELSE c

(* ------------------------------------------------------------------ *)
(* Enumerations and their wire spellings                               *)
(* ------------------------------------------------------------------ *)

TouchModes == <<"None", "Swipe", "Seg16", "Seg16Fill", "Gamepad", "Vip">>
Fonts == <<"Octo", "Vip", "Dream6800", "Eti660", "Schip", "Fish", "AKouZ1">>
LoResDxy0Behaviors == <<"NoOp", "TallSprite", "BigSprite">>
ScreenRotations == <<"Normal", "ClockWise", "UpsideDown", "CounterClockWise">>

Range(s) == {s[i] : i \in 1..Len(s)}

\* The Rust identifier of a variant, character by character.
VariantName(v) ==
   CASE v = "None" -> <<"N", "o", "n", "e">>
     [] v = "Swipe" -> <<"S", "w", "i", "p", "e">>
     [] v = "Seg16" -> <<"S", "e", "g", "1", "6">>
     [] v = "Seg16Fill" -> <<"S", "e", "g", "1", "6", "F", "i", "l", "l">>
     [] v = "Gamepad" -> <<"G", "a", "m", "e", "p", "a", "d">>
     [] v = "Vip" -> <<"V", "i", "p">>
     [] v = "Octo" -> <<"O", "c", "t", "o">>
     [] v = "Dream6800" -> <<"D", "r", "e", "a", "m", "6", "8", "0", "0">>
     [] v = "Eti660" -> <<"E", "t", "i", "6", "6", "0">>
     [] v = "Schip" -> <<"S", "c", "h", "i", "p">>
     [] v = "Fish" -> <<"F", "i", "s", "h">>
     [] v = "AKouZ1" -> <<"A", "K", "o", "u", "Z", "1">>
     [] v = "NoOp" -> <<"N", "o", "O", "p">>
     [] v = "TallSprite" -> <<"T", "a", "l", "l", "S", "p", "r", "i", "t", "e">>
     [] v = "BigSprite" -> <<"B", "i", "g", "S", "p", "r", "i", "t", "e">>

\* serde rename_all = "lowercase": the identifier in ASCII lower case.
RenameLowercase(name) == [i \in 1..Len(name) |-> ToLower(name[i])]

\* serde rename_all = "snake_case" for a variant: an underscore before every
\* upper-case character but the first, then the character in lower case.
RECURSIVE SnakeFrom(_, _)
SnakeFrom(name, i) ==
   IF i > Len(name) THEN <<>>
   ELSE (IF i > 1 /\ IsUpper(name[i]) THEN <<"_">> ELSE <<>>)
        \o <<ToLower(name[i])>> \o SnakeFrom(name, i + 1)
RenameSnakeCase(name) == SnakeFrom(name, 1)

\* lib.rs: TouchMode and Font are rename_all = "lowercase",
\* LoResDxy0Behavior is rename_all = "snake_case".
\* Mutant: rename_all = "snake_case" on TouchMode.
TouchModeWire_Snake(v) == RenameSnakeCase(VariantName(v))
TouchModeWire(v) == RenameLowercase(VariantName(v))
FontWire(v) == RenameLowercase(VariantName(v))
LoResDxy0Wire(v) == RenameSnakeCase(VariantName(v))
\* ini.rs: OctoTouchModeIni is "lowercase", OctoFontIni is "snake_case".
TouchModeIniWire(v) == RenameLowercase(VariantName(v))
FontIniWire(v) == RenameSnakeCase(VariantName(v))

\* The discriminant of a ScreenRotation (repr(u16)).
RotationCode(v) ==
   CASE v = "Normal" -> 0
     [] v = "ClockWise" -> 90
     [] v = "UpsideDown" -> 180
     [] v = "CounterClockWise" -> 270

\* Deserialize_repr: the variant with that discriminant, or an error.
RotationFromCode(n) ==
   IF \E v \in Range(ScreenRotations) : RotationCode(v) = n
   THEN Ok(CHOOSE v \in Range(ScreenRotations) : RotationCode(v) = n)
   ELSE Err(ReprError(n))

\* A unit variant read from its wire spelling: the variant of `variants`
\* whose spelling, wire[v], is s, or an unknown-variant error.
VariantFromWire(variants, wire, s) ==
   LET found == {v \in Range(variants) : wire[v] = s}
   IN IF found # {} THEN Ok(CHOOSE v \in found : TRUE)
      ELSE Err(UnknownVariant(s))

TouchMode_default == "None"
Font_default == "Octo"
ScreenRotation_default == "Normal"
LoResDxy0Behavior_default == "BigSprite"

(* ------------------------------------------------------------------ *)
(* Numbers as text                                                     *)
(* ------------------------------------------------------------------ *)

RECURSIVE ToDec(_)
\* Rust's Display of an unsigned integer: decimal, no sign, no padding.
ToDec(n) == IF n < 10 THEN <<Digits[n + 1]>>
            ELSE ToDec(n \div 10) \o <<Digits[(n % 10) + 1]>>

RECURSIVE DecValue(_, _, _)
\* The value of a string of decimal digits, accumulated left to right as
\* Rust does (checked_mul, checked_add): once it exceeds max it has overflowed.
DecValue(s, acc, max) ==
   IF s = <<>> \/ acc > max THEN acc
   ELSE DecValue(Tail(s), acc * 10 + DigitVal(Head(s)), max)

\* Rust's str::parse for an unsigned integer type with maximum `max`: an
\* optional leading '+', then one or more decimal digits, value <= max.
\* No sign '-', no whitespace, no empty string.  Some(value) or None.
ParseUnsigned(s, max) ==
   LET body == IF Len(s) > 0 /\ s[1] = "+" THEN Tail(s) ELSE s
   IN IF Len(body) = 0 THEN None
      ELSE IF \E i \in 1..Len(body) : ~IsDigit(body[i]) THEN None
      ELSE IF DecValue(body, 0, max) > max THEN None
      ELSE Some(DecValue(body, 0, max))

(* ------------------------------------------------------------------ *)
(* Color (color.rs)                                                    *)
(* ------------------------------------------------------------------ *)

Color(r, g, b) == [r |-> r, g |-> g, b |-> b]

\* Mutant: {:X}, no zero padding.
Hex2_NoPad(n) ==
   IF n < 16 THEN <<UpperHex[n + 1]>>
   ELSE <<UpperHex[(n \div 16) + 1], UpperHex[(n % 16) + 1]>>

\* {:02X}: two upper-case hexadecimal digits, zero padded.
Hex2(n) == <<UpperHex[(n \div 16) + 1], UpperHex[(n % 16) + 1]>>

\* Mutant: the components written b, g, r.
Color_fmt_BGR(c) == <<"#">> \o Hex2(c.b) \o Hex2(c.g) \o Hex2(c.r)

\* impl fmt::Display for Color: "#{:02X}{:02X}{:02X}".
Color_fmt(c) == <<"#">> \o Hex2(c.r) \o Hex2(c.g) \o Hex2(c.b)

\* ---- css_color_parser2 (Color::from_str), the parser color.rs calls ----

\* The parser's error, a unit value.
ColorParseError == <<"color_parse_error">>

\* The smallest element of a non-empty set of integers.
Least(S) == CHOOSE i \in S : \A j \in S : i <= j

\* str::trim: the text without its leading and trailing white space, the
\* characters with the Unicode property White_Space.  A character that has
\* no escape in a string here is written by its code point.
str_trim(s) ==
   LET White_Space ==
          {"\t", "\n", "U+000B", "\f", "\r", " ", "U+0085", "U+00A0", "U+1680",
           "U+2000", "U+2001", "U+2002", "U+2003", "U+2004", "U+2005", "U+2006",
           "U+2007", "U+2008", "U+2009", "U+200A", "U+2028", "U+2029", "U+202F",
           "U+205F", "U+3000"}
       kept == {i \in 1..Len(s) : s[i] \notin White_Space}
   IN IF kept = {} THEN <<>>
      ELSE SubSeq(s, CHOOSE i \in kept : \A j \in kept : i <= j,
                     CHOOSE i \in kept : \A j \in kept : j <= i)

\* str::split on a one-character separator: at least one piece, the pieces
\* between the separators, empty pieces included.
RECURSIVE str_split(_, _)
str_split(s, sep) ==
   LET at == {i \in 1..Len(s) : s[i] = sep}
   IN IF at = {} THEN <<s>>
      ELSE <<SubSeq(s, 1, Least(at) - 1)>>
           \o str_split(SubSeq(s, Least(at) + 1, Len(s)), sep)

\* The table of colour keywords: <<name, r, g, b>>.
NAMED_COLORS ==
   <<
      <<<<"t", "r", "a", "n", "s", "p", "a", "r", "e", "n", "t">>, 0, 0, 0>>,
      <<<<"a", "l", "i", "c", "e", "b", "l", "u", "e">>, 240, 248, 255>>,
      <<<<"a", "n", "t", "i", "q", "u", "e", "w", "h", "i", "t", "e">>, 250, 235, 215>>,
      <<<<"a", "q", "u", "a">>, 0, 255, 255>>,
      <<<<"a", "q", "u", "a", "m", "a", "r", "i", "n", "e">>, 127, 255, 212>>,
      <<<<"a", "z", "u", "r", "e">>, 240, 255, 255>>,
      <<<<"b", "e", "i", "g", "e">>, 245, 245, 220>>,
      <<<<"b", "i", "s", "q", "u", "e">>, 255, 228, 196>>,
      <<<<"b", "l", "a", "c", "k">>, 0, 0, 0>>,
      <<<<"b", "l", "a", "n", "c", "h", "e", "d", "a", "l", "m", "o", "n", "d">>, 255, 235, 205>>,
      <<<<"b", "l", "u", "e">>, 0, 0, 255>>,
      <<<<"b", "l", "u", "e", "v", "i", "o", "l", "e", "t">>, 138, 43, 226>>,
      <<<<"b", "r", "o", "w", "n">>, 165, 42, 42>>,
      <<<<"b", "u", "r", "l", "y", "w", "o", "o", "d">>, 222, 184, 135>>,
      <<<<"c", "a", "d", "e", "t", "b", "l", "u", "e">>, 95, 158, 160>>,
      <<<<"c", "h", "a", "r", "t", "r", "e", "u", "s", "e">>, 127, 255, 0>>,
      <<<<"c", "h", "o", "c", "o", "l", "a", "t", "e">>, 210, 105, 30>>,
      <<<<"c", "o", "r", "a", "l">>, 255, 127, 80>>,
      <<<<"c", "o", "r", "n", "f", "l", "o", "w", "e", "r", "b", "l", "u", "e">>, 100, 149, 237>>,
      <<<<"c", "o", "r", "n", "s", "i", "l", "k">>, 255, 248, 220>>,
      <<<<"c", "r", "i", "m", "s", "o", "n">>, 220, 20, 60>>,
      <<<<"c", "y", "a", "n">>, 0, 255, 255>>,
      <<<<"d", "a", "r", "k", "b", "l", "u", "e">>, 0, 0, 139>>,
      <<<<"d", "a", "r", "k", "c", "y", "a", "n">>, 0, 139, 139>>,
      <<<<"d", "a", "r", "k", "g", "o", "l", "d", "e", "n", "r", "o", "d">>, 184, 134, 11>>,
      <<<<"d", "a", "r", "k", "g", "r", "a", "y">>, 169, 169, 169>>,
      <<<<"d", "a", "r", "k", "g", "r", "e", "e", "n">>, 0, 100, 0>>,
      <<<<"d", "a", "r", "k", "g", "r", "e", "y">>, 169, 169, 169>>,
      <<<<"d", "a", "r", "k", "k", "h", "a", "k", "i">>, 189, 183, 107>>,
      <<<<"d", "a", "r", "k", "m", "a", "g", "e", "n", "t", "a">>, 139, 0, 139>>,
      <<<<"d", "a", "r", "k", "o", "l", "i", "v", "e", "g", "r", "e", "e", "n">>, 85, 107, 47>>,
      <<<<"d", "a", "r", "k", "o", "r", "a", "n", "g", "e">>, 255, 140, 0>>,
      <<<<"d", "a", "r", "k", "o", "r", "c", "h", "i", "d">>, 153, 50, 204>>,
      <<<<"d", "a", "r", "k", "r", "e", "d">>, 139, 0, 0>>,
      <<<<"d", "a", "r", "k", "s", "a", "l", "m", "o", "n">>, 233, 150, 122>>,
      <<<<"d", "a", "r", "k", "s", "e", "a", "g", "r", "e", "e", "n">>, 143, 188, 143>>,
      <<<<"d", "a", "r", "k", "s", "l", "a", "t", "e", "b", "l", "u", "e">>, 72, 61, 139>>,
      <<<<"d", "a", "r", "k", "s", "l", "a", "t", "e", "g", "r", "a", "y">>, 47, 79, 79>>,
      <<<<"d", "a", "r", "k", "s", "l", "a", "t", "e", "g", "r", "e", "y">>, 47, 79, 79>>,
      <<<<"d", "a", "r", "k", "t", "u", "r", "q", "u", "o", "i", "s", "e">>, 0, 206, 209>>,
      <<<<"d", "a", "r", "k", "v", "i", "o", "l", "e", "t">>, 148, 0, 211>>,
      <<<<"d", "e", "e", "p", "p", "i", "n", "k">>, 255, 20, 147>>,
      <<<<"d", "e", "e", "p", "s", "k", "y", "b", "l", "u", "e">>, 0, 191, 255>>,
      <<<<"d", "i", "m", "g", "r", "a", "y">>, 105, 105, 105>>,
      <<<<"d", "i", "m", "g", "r", "e", "y">>, 105, 105, 105>>,
      <<<<"d", "o", "d", "g", "e", "r", "b", "l", "u", "e">>, 30, 144, 255>>,
      <<<<"f", "i", "r", "e", "b", "r", "i", "c", "k">>, 178, 34, 34>>,
      <<<<"f", "l", "o", "r", "a", "l", "w", "h", "i", "t", "e">>, 255, 250, 240>>,
      <<<<"f", "o", "r", "e", "s", "t", "g", "r", "e", "e", "n">>, 34, 139, 34>>,
      <<<<"f", "u", "c", "h", "s", "i", "a">>, 255, 0, 255>>,
      <<<<"g", "a", "i", "n", "s", "b", "o", "r", "o">>, 220, 220, 220>>,
      <<<<"g", "h", "o", "s", "t", "w", "h", "i", "t", "e">>, 248, 248, 255>>,
      <<<<"g", "o", "l", "d">>, 255, 215, 0>>,
      <<<<"g", "o", "l", "d", "e", "n", "r", "o", "d">>, 218, 165, 32>>,
      <<<<"g", "r", "a", "y">>, 128, 128, 128>>,
      <<<<"g", "r", "e", "e", "n">>, 0, 128, 0>>,
      <<<<"g", "r", "e", "e", "n", "y", "e", "l", "l", "o", "w">>, 173, 255, 47>>,
      <<<<"g", "r", "e", "y">>, 128, 128, 128>>,
      <<<<"h", "o", "n", "e", "y", "d", "e", "w">>, 240, 255, 240>>,
      <<<<"h", "o", "t", "p", "i", "n", "k">>, 255, 105, 180>>,
      <<<<"i", "n", "d", "i", "a", "n", "r", "e", "d">>, 205, 92, 92>>,
      <<<<"i", "n", "d", "i", "g", "o">>, 75, 0, 130>>,
      <<<<"i", "v", "o", "r", "y">>, 255, 255, 240>>,
      <<<<"k", "h", "a", "k", "i">>, 240, 230, 140>>,
      <<<<"l", "a", "v", "e", "n", "d", "e", "r">>, 230, 230, 250>>,
      <<<<"l", "a", "v", "e", "n", "d", "e", "r", "b", "l", "u", "s", "h">>, 255, 240, 245>>,
      <<<<"l", "a", "w", "n", "g", "r", "e", "e", "n">>, 124, 252, 0>>,
      <<<<"l", "e", "m", "o", "n", "c", "h", "i", "f", "f", "o", "n">>, 255, 250, 205>>,
      <<<<"l", "i", "g", "h", "t", "b", "l", "u", "e">>, 173, 216, 230>>,
      <<<<"l", "i", "g", "h", "t", "c", "o", "r", "a", "l">>, 240, 128, 128>>,
      <<<<"l", "i", "g", "h", "t", "c", "y", "a", "n">>, 224, 255, 255>>,
      <<<<"l", "i", "g", "h", "t", "g", "o", "l", "d", "e", "n", "r", "o", "d", "y", "e", "l", "l", "o", "w">>, 250, 250, 210>>,
      <<<<"l", "i", "g", "h", "t", "g", "r", "a", "y">>, 211, 211, 211>>,
      <<<<"l", "i", "g", "h", "t", "g", "r", "e", "e", "n">>, 144, 238, 144>>,
      <<<<"l", "i", "g", "h", "t", "g", "r", "e", "y">>, 211, 211, 211>>,
      <<<<"l", "i", "g", "h", "t", "p", "i", "n", "k">>, 255, 182, 193>>,
      <<<<"l", "i", "g", "h", "t", "s", "a", "l", "m", "o", "n">>, 255, 160, 122>>,
      <<<<"l", "i", "g", "h", "t", "s", "e", "a", "g", "r", "e", "e", "n">>, 32, 178, 170>>,
      <<<<"l", "i", "g", "h", "t", "s", "k", "y", "b", "l", "u", "e">>, 135, 206, 250>>,
      <<<<"l", "i", "g", "h", "t", "s", "l", "a", "t", "e", "g", "r", "a", "y">>, 119, 136, 153>>,
      <<<<"l", "i", "g", "h", "t", "s", "l", "a", "t", "e", "g", "r", "e", "y">>, 119, 136, 153>>,
      <<<<"l", "i", "g", "h", "t", "s", "t", "e", "e", "l", "b", "l", "u", "e">>, 176, 196, 222>>,
      <<<<"l", "i", "g", "h", "t", "y", "e", "l", "l", "o", "w">>, 255, 255, 224>>,
      <<<<"l", "i", "m", "e">>, 0, 255, 0>>,
      <<<<"l", "i", "m", "e", "g", "r", "e", "e", "n">>, 50, 205, 50>>,
      <<<<"l", "i", "n", "e", "n">>, 250, 240, 230>>,
      <<<<"m", "a", "g", "e", "n", "t", "a">>, 255, 0, 255>>,
      <<<<"m", "a", "r", "o", "o", "n">>, 128, 0, 0>>,
      <<<<"m", "e", "d", "i", "u", "m", "a", "q", "u", "a", "m", "a", "r", "i", "n", "e">>, 102, 205, 170>>,
      <<<<"m", "e", "d", "i", "u", "m", "b", "l", "u", "e">>, 0, 0, 205>>,
      <<<<"m", "e", "d", "i", "u", "m", "o", "r", "c", "h", "i", "d">>, 186, 85, 211>>,
      <<<<"m", "e", "d", "i", "u", "m", "p", "u", "r", "p", "l", "e">>, 147, 112, 219>>,
      <<<<"m", "e", "d", "i", "u", "m", "s", "e", "a", "g", "r", "e", "e", "n">>, 60, 179, 113>>,
      <<<<"m", "e", "d", "i", "u", "m", "s", "l", "a", "t", "e", "b", "l", "u", "e">>, 123, 104, 238>>,
      <<<<"m", "e", "d", "i", "u", "m", "s", "p", "r", "i", "n", "g", "g", "r", "e", "e", "n">>, 0, 250, 154>>,
      <<<<"m", "e", "d", "i", "u", "m", "t", "u", "r", "q", "u", "o", "i", "s", "e">>, 72, 209, 204>>,
      <<<<"m", "e", "d", "i", "u", "m", "v", "i", "o", "l", "e", "t", "r", "e", "d">>, 199, 21, 133>>,
      <<<<"m", "i", "d", "n", "i", "g", "h", "t", "b", "l", "u", "e">>, 25, 25, 112>>,
      <<<<"m", "i", "n", "t", "c", "r", "e", "a", "m">>, 245, 255, 250>>,
      <<<<"m", "i", "s", "t", "y", "r", "o", "s", "e">>, 255, 228, 225>>,
      <<<<"m", "o", "c", "c", "a", "s", "i", "n">>, 255, 228, 181>>,
      <<<<"n", "a", "v", "a", "j", "o", "w", "h", "i", "t", "e">>, 255, 222, 173>>,
      <<<<"n", "a", "v", "y">>, 0, 0, 128>>,
      <<<<"o", "l", "d", "l", "a", "c", "e">>, 253, 245, 230>>,
      <<<<"o", "l", "i", "v", "e">>, 128, 128, 0>>,
      <<<<"o", "l", "i", "v", "e", "d", "r", "a", "b">>, 107, 142, 35>>,
      <<<<"o", "r", "a", "n", "g", "e">>, 255, 165, 0>>,
      <<<<"o", "r", "a", "n", "g", "e", "r", "e", "d">>, 255, 69, 0>>,
      <<<<"o", "r", "c", "h", "i", "d">>, 218, 112, 214>>,
      <<<<"p", "a", "l", "e", "g", "o", "l", "d", "e", "n", "r", "o", "d">>, 238, 232, 170>>,
      <<<<"p", "a", "l", "e", "g", "r", "e", "e", "n">>, 152, 251, 152>>,
      <<<<"p", "a", "l", "e", "t", "u", "r", "q", "u", "o", "i", "s", "e">>, 175, 238, 238>>,
      <<<<"p", "a", "l", "e", "v", "i", "o", "l", "e", "t", "r", "e", "d">>, 219, 112, 147>>,
      <<<<"p", "a", "p", "a", "y", "a", "w", "h", "i", "p">>, 255, 239, 213>>,
      <<<<"p", "e", "a", "c", "h", "p", "u", "f", "f">>, 255, 218, 185>>,
      <<<<"p", "e", "r", "u">>, 205, 133, 63>>,
      <<<<"p", "i", "n", "k">>, 255, 192, 203>>,
      <<<<"p", "l", "u", "m">>, 221, 160, 221>>,
      <<<<"p", "o", "w", "d", "e", "r", "b", "l", "u", "e">>, 176, 224, 230>>,
      <<<<"p", "u", "r", "p", "l", "e">>, 128, 0, 128>>,
      <<<<"r", "e", "b", "e", "c", "c", "a", "p", "u", "r", "p", "l", "e">>, 102, 51, 153>>,
      <<<<"r", "e", "d">>, 255, 0, 0>>,
      <<<<"r", "o", "s", "y", "b", "r", "o", "w", "n">>, 188, 143, 143>>,
      <<<<"r", "o", "y", "a", "l", "b", "l", "u", "e">>, 65, 105, 225>>,
      <<<<"s", "a", "d", "d", "l", "e", "b", "r", "o", "w", "n">>, 139, 69, 19>>,
      <<<<"s", "a", "l", "m", "o", "n">>, 250, 128, 114>>,
      <<<<"s", "a", "n", "d", "y", "b", "r", "o", "w", "n">>, 244, 164, 96>>,
      <<<<"s", "e", "a", "g", "r", "e", "e", "n">>, 46, 139, 87>>,
      <<<<"s", "e", "a", "s", "h", "e", "l", "l">>, 255, 245, 238>>,
      <<<<"s", "i", "e", "n", "n", "a">>, 160, 82, 45>>,
      <<<<"s", "i", "l", "v", "e", "r">>, 192, 192, 192>>,
      <<<<"s", "k", "y", "b", "l", "u", "e">>, 135, 206, 235>>,
      <<<<"s", "l", "a", "t", "e", "b", "l", "u", "e">>, 106, 90, 205>>,
      <<<<"s", "l", "a", "t", "e", "g", "r", "a", "y">>, 112, 128, 144>>,
      <<<<"s", "l", "a", "t", "e", "g", "r", "e", "y">>, 112, 128, 144>>,
      <<<<"s", "n", "o", "w">>, 255, 250, 250>>,
      <<<<"s", "p", "r", "i", "n", "g", "g", "r", "e", "e", "n">>, 0, 255, 127>>,
      <<<<"s", "t", "e", "e", "l", "b", "l", "u", "e">>, 70, 130, 180>>,
      <<<<"t", "a", "n">>, 210, 180, 140>>,
      <<<<"t", "e", "a", "l">>, 0, 128, 128>>,
      <<<<"t", "h", "i", "s", "t", "l", "e">>, 216, 191, 216>>,
      <<<<"t", "o", "m", "a", "t", "o">>, 255, 99, 71>>,
      <<<<"t", "u", "r", "q", "u", "o", "i", "s", "e">>, 64, 224, 208>>,
      <<<<"v", "i", "o", "l", "e", "t">>, 238, 130, 238>>,
      <<<<"w", "h", "e", "a", "t">>, 245, 222, 179>>,
      <<<<"w", "h", "i", "t", "e">>, 255, 255, 255>>,
      <<<<"w", "h", "i", "t", "e", "s", "m", "o", "k", "e">>, 245, 245, 245>>,
      <<<<"y", "e", "l", "l", "o", "w">>, 255, 255, 0>>,
      <<<<"y", "e", "l", "l", "o", "w", "g", "r", "e", "e", "n">>, 154, 205, 50>>
   >>

\* u64::from_str_radix(s, 16): an optional '+', then one or more hexadecimal
\* digits in either case (the text is in lower case by then).  Some(value)
\* or None.
from_str_radix16(s) ==
   LET LowerHex == <<"0", "1", "2", "3", "4", "5", "6", "7", "8", "9",
                     "a", "b", "c", "d", "e", "f">>
       IsHex(c) == \E i \in 1..16 : UpperHex[i] = c \/ LowerHex[i] = c
       HexVal(c) == (CHOOSE i \in 1..16 : UpperHex[i] = c \/ LowerHex[i] = c) - 1
       body == IF Len(s) > 0 /\ s[1] = "+" THEN Tail(s) ELSE s
       v[i \in 0..Len(body)] == IF i = 0 THEN 0 ELSE v[i - 1] * 16 + HexVal(body[i])
   IN IF Len(body) = 0 \/ (\E i \in 1..Len(body) : ~IsHex(body[i])) THEN None
      ELSE Some(v[Len(body)])

\* ---- f32: the IEEE 754 binary32 arithmetic the parser computes in ----
\*
\* An f32 is [kind, neg, m, e].  kind "fin" is the value (-1)^neg * m * 2^e,
\* with 2^23 <= m < 2^24 and -126 - 23 <= e <= 104 (normal), or m < 2^23
\* and e = -149 (subnormal), or m = 0 and e = 0 (zero, signed).  kind "inf"
\* is the infinity of that sign and kind "nan" a NaN, both with m = e = 0.
\* Every operation gives the exact result rounded to the nearest f32, ties
\* to the even m.  A natural number of any size is the sequence of its
\* digits in base 64, the lowest first.

RECURSIVE MulAdd(_, _, _)
\* The digits of n * k + c, n given by its digits (k * 64 + c < 2^31).
MulAdd(ds, k, c) ==
   IF ds = <<>>
   THEN IF c = 0 THEN <<>> ELSE <<c % 64>> \o MulAdd(<<>>, k, c \div 64)
   ELSE <<(k * Head(ds) + c) % 64>>
        \o MulAdd(Tail(ds), k, (k * Head(ds) + c) \div 64)

RECURSIVE DivFrom(_, _, _)
\* n given by its digits from the highest down, r < k carried in: the
\* digits, from the highest down, of the quotient of r * 64^Len(ds) + n by
\* k, and after them the remainder (0 < k < 2^24).
DivFrom(ds, k, r) ==
   IF ds = <<>> THEN <<r>>
   ELSE <<(64 * r + Head(ds)) \div k>>
        \o DivFrom(Tail(ds), k, (64 * r + Head(ds)) % k)

\* The quotient (its digits) and the remainder of n by k, n given by its
\* digits.
DivRem(ds, k) ==
   LET Split(qr) == [q |-> [i \in 1..Len(ds) |-> qr[Len(ds) + 1 - i]],
                      r |-> qr[Len(ds) + 1]]
   IN Split(DivFrom([i \in 1..Len(ds) |-> ds[Len(ds) + 1 - i]], k, 0))

\* The f32 nearest to (-1)^neg * (n + x) * 2^e, n given by its digits and
\* 0 <= x < 1, x > 0 exactly if sticky: n is cut to 24 bits, or to the bits
\* from 2^-149 up, and rounded by the first bit cut and the rest.
f32_round(neg, ds, e, sticky) ==
   LET p2 == <<1, 2, 4, 8, 16, 32, 64>>
       nz == {i \in 1..Len(ds) : ds[i] # 0}
       \* the five digits from a up, as a number
       Five(a) ==
          LET v[i \in 0..5] ==
                 IF i = 0 THEN 0
                 ELSE 64 * v[i - 1] + (IF a + 5 - i \in 1..Len(ds) THEN ds[a + 5 - i] ELSE 0)
          IN v[5]
       \* the number of bits of n, ds[hi] its highest digit
       Bits(hi) == 6 * (hi - 1) + (CHOOSE b \in 1..6 : p2[b] <= ds[hi] /\ ds[hi] < p2[b + 1])
       Fin(m, t) ==
          IF m = 0 THEN [kind |-> "fin", neg |-> neg, m |-> 0, e |-> 0]
          ELSE IF t > 104 THEN [kind |-> "inf", neg |-> neg, m |-> 0, e |-> 0]
          ELSE [kind |-> "fin", neg |-> neg, m |-> m, e |-> t]
       \* m: the bits kept; guard: the first bit cut; rest: something below it
       Rounded(m, guard, rest, t) ==
          Fin(IF guard /\ (rest \/ m % 2 = 1)
              THEN (IF m = 16777215 THEN 8388608 ELSE m + 1)
              ELSE m,
              IF guard /\ (rest \/ m % 2 = 1) /\ m = 16777215 THEN t + 1 ELSE t)
       \* the bits of n from 2^(c + 1) up are kept, 2^(c + 1) counting 2^t
       Cut(c, t) ==
          Rounded(Five((c \div 6) + 1) \div (2 * p2[(c % 6) + 1]),
                  (Five((c \div 6) + 1) \div p2[(c % 6) + 1]) % 2 = 1,
                  \/ sticky
                  \/ Five((c \div 6) + 1) % p2[(c % 6) + 1] # 0
                  \/ \E i \in nz : i <= c \div 6,
                  t)
   IN IF nz = {} THEN [kind |-> "fin", neg |-> neg, m |-> 0, e |-> 0]
      ELSE IF e + Bits(CHOOSE i \in nz : \A j \in nz : j <= i) - 24 < -149
      THEN Cut(-150 - e, -149)
      ELSE Cut(Bits(CHOOSE i \in nz : \A j \in nz : j <= i) - 25,
               e + Bits(CHOOSE i \in nz : \A j \in nz : j <= i) - 24)

\* a + b, a * b, a / b and a % b (o is "+", "*", "/" or "%").  A NaN
\* operand gives a NaN; an infinity or a zero gives the result the standard
\* names; otherwise the exact result, as digits * 2^e, is rounded.
\*   a + b: x is the larger in size and y the other, x.e = y.e + d; the sum
\*     or difference is (hi * 2^d + lo) * 2^y.e with the sign of x, +0 if it
\*     is zero.  26 binary places apart or more, y is less than a quarter of
\*     the last place of x.
\*   a / b: the quotient of a.m * 2^54 by b.m has 26 bits or more.
\*   a % b: the remainder of the division cut towards zero, with the sign
\*     of a; it is exact.
f32_op(o, a, b) ==
   LET NaN == [kind |-> "nan", neg |-> FALSE, m |-> 0, e |-> 0]
       Inf(neg) == [kind |-> "inf", neg |-> neg, m |-> 0, e |-> 0]
       Zero(neg) == [kind |-> "fin", neg |-> neg, m |-> 0, e |-> 0]
       \* p2[d + 1] = 2^d
       p2 == <<1, 2, 4, 8, 16, 32, 64, 128, 256, 512, 1024, 2048, 4096, 8192,
               16384, 32768, 65536, 131072, 262144, 524288, 1048576, 2097152,
               4194304, 8388608, 16777216, 33554432>>
       \* k * 2^d is the least multiple of 2^d that y.m does not exceed
       Sum(x, y, d, pd, k) ==
          MulAdd(MulAdd(MulAdd(<<>>, 0, IF x.neg = y.neg THEN x.m ELSE x.m - k),
                        p2[(d \div 2) + 1], 0),
                 p2[d - (d \div 2) + 1],
                 IF x.neg = y.neg THEN y.m ELSE k * pd - y.m)
       Ordered(x, y, d) ==
          Sum(x, y, d, p2[d + 1], (y.m + p2[d + 1] - 1) \div p2[d + 1])
       aFirst == a.e > b.e \/ (a.e = b.e /\ a.m >= b.m)
       \* the digits of a.m * 2^d
       Shl(d) == [i \in 1..(d \div 6) |-> 0] \o MulAdd(MulAdd(<<>>, 0, a.m), p2[(d % 6) + 1], 0)
       Quotient == DivRem([i \in 1..9 |-> 0] \o MulAdd(<<>>, 0, a.m), b.m)
   IN IF a.kind = "nan" \/ b.kind = "nan" THEN NaN
      ELSE IF o = "+" /\ (a.kind = "inf" \/ b.kind = "inf")
      THEN IF a.kind = b.kind /\ a.neg # b.neg THEN NaN
           ELSE IF a.kind = "inf" THEN a ELSE b
      ELSE IF o = "+" /\ a.m = 0 THEN (IF b.m = 0 THEN Zero(a.neg /\ b.neg) ELSE b)
      ELSE IF o = "+" /\ (b.m = 0 \/ a.e - b.e >= 26) THEN a
      ELSE IF o = "+" /\ b.e - a.e >= 26 THEN b
      ELSE IF o = "*" /\ (a.kind = "inf" \/ b.kind = "inf")
      THEN IF (a.kind = "fin" /\ a.m = 0) \/ (b.kind = "fin" /\ b.m = 0) THEN NaN
           ELSE Inf(a.neg # b.neg)
      ELSE IF o = "/" /\ a.kind = "inf"
      THEN IF b.kind = "inf" THEN NaN ELSE Inf(a.neg # b.neg)
      ELSE IF o = "/" /\ b.kind = "inf" THEN Zero(a.neg # b.neg)
      ELSE IF o = "/" /\ b.m = 0 THEN (IF a.m = 0 THEN NaN ELSE Inf(a.neg # b.neg))
      ELSE IF o = "/" /\ a.m = 0 THEN Zero(a.neg # b.neg)
      ELSE IF o = "%" /\ (a.kind = "inf" \/ (b.kind = "fin" /\ b.m = 0)) THEN NaN
      ELSE IF o = "%" /\ (b.kind = "inf" \/ a.m = 0 \/ a.e < b.e) THEN a
      ELSE f32_round(IF o = "+"
                     THEN (IF aFirst THEN a.neg ELSE b.neg)
                          /\ (a.neg = b.neg \/ a.e # b.e \/ a.m # b.m)
                     ELSE IF o = "%" THEN a.neg
                     ELSE a.neg # b.neg,
                     IF o = "+"
                     THEN Ordered(IF aFirst THEN a ELSE b, IF aFirst THEN b ELSE a,
                                  IF aFirst THEN a.e - b.e ELSE b.e - a.e)
                     ELSE IF o = "*" THEN MulAdd(MulAdd(<<>>, 0, a.m), b.m, 0)
                     ELSE IF o = "/" THEN Quotient.q
                     ELSE MulAdd(<<>>, 0, DivRem(Shl(a.e - b.e), b.m).r),
                     IF o = "+" THEN (IF aFirst THEN b.e ELSE a.e)
                     ELSE IF o = "*" THEN a.e + b.e
                     ELSE IF o = "/" THEN a.e - 54 - b.e
                     ELSE b.e,
                     o = "/" /\ Quotient.r # 0)

\* An f32 expression is a value, <<"f32", v>>; an operation of two
\* expressions, <<"+", x, y>>, <<"-", x, y>>, <<"*", x, y>>, <<"/", x, y>>,
\* <<"%", x, y>>; or a choice, <<"if", <<"<", x, y>>, then, else>> and
\* <<"if", <<"<=", x, y>>, then, else>>.  f32 is its value, every operation
\* rounded as Rust's on f32; a comparison with a NaN is false.
RECURSIVE f32(_)
f32(x) ==
   LET \* a < b: by the signs, then by the exponents and the mantissas of
       \* the two sizes; -0 is not below +0.
       Exp(v) == IF v.kind = "inf" THEN 105 ELSE IF v.m = 0 THEN -150 ELSE v.e
       Smaller(v, w) == Exp(v) < Exp(w) \/ (Exp(v) = Exp(w) /\ v.m < w.m)
       f32_lt(a, b) ==
          IF a.kind = "nan" \/ b.kind = "nan" THEN FALSE
          ELSE IF a.neg # b.neg THEN a.neg /\ (Exp(a) # -150 \/ Exp(b) # -150)
          ELSE IF a.neg THEN Smaller(b, a)
          ELSE Smaller(a, b)
       Holds(rel, a, b) ==
          IF rel = "<" THEN f32_lt(a, b)
          ELSE a.kind # "nan" /\ b.kind # "nan" /\ ~f32_lt(b, a)
       Minus(v) == [v EXCEPT !.neg = ~v.neg]
   IN IF x[1] = "f32" THEN x[2]
      ELSE IF x[1] = "if"
      THEN IF Holds(x[2][1], f32(x[2][2]), f32(x[2][3])) THEN f32(x[3]) ELSE f32(x[4])
      ELSE f32_op(IF x[1] = "-" THEN "+" ELSE x[1], f32(x[2]),
                  IF x[1] = "-" THEN Minus(f32(x[3])) ELSE f32(x[3]))

\* dec2flt: the f32 nearest to (-1)^neg * sig * 10^e10 (sig decimal digits
\* without leading zeros): at
\* 10^39 and above it is beyond every f32, below 10^-46 it is less
\* than half of the smallest one, 2^-149.
dec2flt(neg, sig, e10) ==
   LET p10 == <<10, 100, 1000, 10000, 100000, 1000000, 10000000>>
       Least7(k) == IF k < 7 THEN k ELSE 7
       \* sig, seven digits at a time
       n[i \in 0..((Len(sig) + 6) \div 7)] ==
          IF i = 0 THEN <<>>
          ELSE MulAdd(n[i - 1], p10[Least7(Len(sig) - 7 * (i - 1))],
                      DecValue(SubSeq(sig, 7 * i - 6, 7 * (i - 1) + Least7(Len(sig) - 7 * (i - 1))),
                               0, 9999999))
       \* sig * 10^e10, seven powers at a time
       up[i \in 0..6] ==
          IF i = 0 THEN n[(Len(sig) + 6) \div 7]
          ELSE MulAdd(up[i - 1], p10[Least7(e10 - 7 * (i - 1))], 0)
       \* sig * 2^162 / 10^-e10, seven powers at a time: the
       \* quotient, and whether any division left a remainder
       Left(r, qr) == [q |-> qr.q, r |-> IF r # 0 \/ qr.r # 0 THEN 1 ELSE 0]
       down[i \in 0..((Len(sig) + 52) \div 7)] ==
          IF i = 0 THEN [q |-> [j \in 1..27 |-> 0] \o n[(Len(sig) + 6) \div 7], r |-> 0]
          ELSE Left(down[i - 1].r, DivRem(down[i - 1].q, p10[Least7(0 - e10 - 7 * (i - 1))]))
   IN IF sig = <<>> THEN [kind |-> "fin", neg |-> neg, m |-> 0, e |-> 0]
      ELSE IF Len(sig) + e10 > 39 THEN [kind |-> "inf", neg |-> neg, m |-> 0, e |-> 0]
      ELSE IF Len(sig) + e10 < -45 THEN [kind |-> "fin", neg |-> neg, m |-> 0, e |-> 0]
      ELSE f32_round(neg,
                     IF e10 >= 0 THEN up[(e10 + 6) \div 7] ELSE down[(6 - e10) \div 7].q,
                     IF e10 >= 0 THEN 0 ELSE -162,
                     e10 < 0 /\ down[(6 - e10) \div 7].r # 0)

\* f32::from_str: an optional sign, then "inf", "infinity", "nan", or a
\* decimal number (digits with at most one '.', at least one digit) with an
\* optional exponent, letters in either case; the f32 nearest to the number
\* written, infinite when that is beyond the largest f32.  Some(f32) or
\* None.
ParseF32(s) ==
   LET neg == Len(s) > 0 /\ s[1] = "-"
       Unsigned(t) == IF Len(t) > 0 /\ t[1] \in {"+", "-"} THEN Tail(t) ELSE t
       AllDigits(t) == \A i \in 1..Len(t) : IsDigit(t[i])
       \* Where c first stands in t, or Len(t) + 1.
       FirstOf(t, c) ==
          LET at == {i \in 1..Len(t) : t[i] = c}
          IN IF at = {} THEN Len(t) + 1 ELSE Least(at)
       \* The digits ds without their leading zeros, times 10^e10
       Digits10(ds, nz, e10) ==
          Some([sig |-> IF nz = {} THEN <<>> ELSE SubSeq(ds, Least(nz), Len(ds)),
                e10 |-> e10])
       \* The digits before and after the '.', and the exponent if there is one.
       Finite(ip, fp, hasExp, expo) ==
          IF /\ AllDigits(ip) /\ AllDigits(fp) /\ Len(ip) + Len(fp) > 0
             /\ (hasExp => (Len(Unsigned(expo)) > 0 /\ AllDigits(Unsigned(expo))))
          THEN Digits10(ip \o fp, {i \in 1..(Len(ip) + Len(fp)) : (ip \o fp)[i] # "0"},
                        (IF Len(expo) > 0 /\ expo[1] = "-" THEN -1 ELSE 1)
                           * DecValue(Unsigned(expo), 0, 99999) - Len(fp))
          ELSE None
       Mantissa(mant, d1, hasExp, expo) ==
          Finite(SubSeq(mant, 1, d1 - 1), SubSeq(mant, d1 + 1, Len(mant)), hasExp, expo)
       Decimal(body, e1) ==
          Mantissa(SubSeq(body, 1, e1 - 1), FirstOf(SubSeq(body, 1, e1 - 1), "."),
                   e1 <= Len(body), SubSeq(body, e1 + 1, Len(body)))
       Number(body, dec) ==
          IF body \in {<<"i", "n", "f">>, <<"i", "n", "f", "i", "n", "i", "t", "y">>}
          THEN Some([kind |-> "inf", neg |-> neg, m |-> 0, e |-> 0])
          ELSE IF body = <<"n", "a", "n">>
          THEN Some([kind |-> "nan", neg |-> neg, m |-> 0, e |-> 0])
          ELSE IF IsNone(dec) THEN None
          ELSE Some(dec2flt(neg, Unwrap(dec).sig, Unwrap(dec).e10))
       body == [i \in 1..Len(Unsigned(s)) |-> ToLower(Unsigned(s)[i])]
   IN Number(body, Decimal(body, FirstOf(body, "e")))

\* clamp_css_byte_from_float: fv.round(), halves away from zero, then 0
\* below 0, 255 above 255, and the value as u8 otherwise (a NaN is 0).
clamp_css_byte_from_float(fv) ==
   LET \* p2[d + 1] = 2^d
       p2 == <<1, 2, 4, 8, 16, 32, 64, 128, 256, 512, 1024, 2048, 4096, 8192,
               16384, 32768, 65536, 131072, 262144, 524288, 1048576, 2097152,
               4194304, 8388608, 16777216>>
       Clamped(v) == IF v > 255 THEN 255 ELSE v
       Round(ip, frac, pow) == Clamped(ip + (IF 2 * frac >= pow THEN 1 ELSE 0))
   IN IF fv.kind = "nan" \/ fv.neg THEN 0
      ELSE IF fv.kind = "inf" THEN 255
      ELSE IF fv.m = 0 THEN 0
      \* not below 2^23
      ELSE IF fv.e >= 0 THEN 255
      ELSE IF fv.e < -24 THEN 0
      ELSE Round(fv.m \div p2[1 - fv.e], fv.m % p2[1 - fv.e], p2[1 - fv.e])

\* parse_css_int: a percentage ("50%": f32, fv / 100.0 * 255.0, rounded and
\* clamped) or an integer (u32::from_str, clamped to 255).  Some(byte) or
\* None.
parse_css_int(p) ==
   LET F(m, e) == <<"f32", [kind |-> "fin", neg |-> FALSE, m |-> m, e |-> e]>>
       \* 100.0 = 13107200 * 2^-17, 255.0 = 16711680 * 2^-16
       Percentage(fv) ==
          IF IsNone(fv) THEN None
          ELSE Some(clamp_css_byte_from_float(
                       f32(<<"*", <<"/", <<"f32", Unwrap(fv)>>, F(13107200, -17)>>,
                             F(16711680, -16)>>)))
       u32max == <<"4", "2", "9", "4", "9", "6", "7", "2", "9", "5">>
       \* The digits without their leading zeros: a u32 or too large.
       Fits(sig) ==
          LET diff == {i \in 1..10 : sig[i] # u32max[i]}
          IN \/ Len(sig) < 10
             \/ /\ Len(sig) = 10
                /\ (diff = {} \/ DigitVal(sig[Least(diff)]) < DigitVal(u32max[Least(diff)]))
       Clamped(v) == IF v > 255 THEN 255 ELSE v
       Significant(sig) ==
          IF ~Fits(sig) THEN None
          ELSE IF Len(sig) > 3 THEN Some(255)
          ELSE Some(Clamped(DecValue(sig, 0, 999)))
       WithoutZeros(body, nz) ==
          Significant(IF nz = {} THEN <<>> ELSE SubSeq(body, Least(nz), Len(body)))
       Integer(body) ==
          IF Len(body) = 0 \/ (\E i \in 1..Len(body) : ~IsDigit(body[i])) THEN None
          ELSE WithoutZeros(body, {i \in 1..Len(body) : body[i] # "0"})
   IN IF Len(p) > 0 /\ p[Len(p)] = "%"
      THEN Percentage(ParseF32(SubSeq(p, 1, Len(p) - 1)))
      ELSE Integer(IF Len(p) > 0 /\ p[1] = "+" THEN Tail(p) ELSE p)

\* parse_css_float: a percentage (fv / 100.0) or a number, then
\* clamp_css_float: 0.0 below 0, 1.0 above 1, the value otherwise (a NaN
\* stays a NaN).  Some(f32) or None.
parse_css_float(p) ==
   LET F(m, e) == <<"f32", [kind |-> "fin", neg |-> FALSE, m |-> m, e |-> e]>>
       \* 0.0, 1.0 = 2^23 * 2^-23, 100.0 = 13107200 * 2^-17
       clamp_css_float(fv) ==
          <<"if", <<"<", fv, F(0, 0)>>, F(0, 0),
            <<"if", <<"<", F(8388608, -23), fv>>, F(8388608, -23), fv>>>>
       Float(fv, percent) ==
          IF IsNone(fv) THEN None
          ELSE Some(f32(clamp_css_float(IF percent
                                        THEN <<"/", <<"f32", Unwrap(fv)>>, F(13107200, -17)>>
                                        ELSE <<"f32", Unwrap(fv)>>)))
   IN Float(ParseF32(IF Len(p) > 0 /\ p[Len(p)] = "%" THEN SubSeq(p, 1, Len(p) - 1) ELSE p),
            Len(p) > 0 /\ p[Len(p)] = "%")

\* css_hue_to_rgb(m1, m2, h), as an f32 expression of the expressions m1,
\* m2 and h: h is h + 1.0 if h < 0.0 and h - 1.0 if h > 1.0; then
\* m1 + (m2 - m1) * h * 6.0 if h * 6.0 < 1.0, m2 if h * 2.0 < 1.0,
\* m1 + (m2 - m1) * (2.0 / 3.0 - h) * 6.0 if h * 3.0 < 2.0, m1 otherwise.
css_hue_to_rgb(m1, m2, h) ==
   LET F(m, e) == <<"f32", [kind |-> "fin", neg |-> FALSE, m |-> m, e |-> e]>>
       zero == F(0, 0)
       one == F(8388608, -23)
       two == F(8388608, -22)
       three == F(12582912, -22)
       six == F(12582912, -21)
       hh == <<"if", <<"<", h, zero>>, <<"+", h, one>>,
               <<"if", <<"<", one, h>>, <<"-", h, one>>, h>>>>
   IN <<"if", <<"<", <<"*", hh, six>>, one>>,
        <<"+", m1, <<"*", <<"*", <<"-", m2, m1>>, hh>>, six>>>>,
        <<"if", <<"<", <<"*", hh, two>>, one>>,
          m2,
          <<"if", <<"<", <<"*", hh, three>>, two>>,
            <<"+", m1, <<"*", <<"*", <<"-", m2, m1>>, <<"-", <<"/", two, three>>, hh>>>>, six>>>>,
            m1>>>>>>

\* parse_rgb: three parse_css_int components.
parse_rgb(params) ==
   LET \* c[1], c[2] and c[3] are r, g and b
       Rgb(c) ==
          IF IsNone(c[1]) \/ IsNone(c[2]) \/ IsNone(c[3]) THEN Err(ColorParseError)
          ELSE Ok(Color(Unwrap(c[1]), Unwrap(c[2]), Unwrap(c[3])))
   IN IF Len(params) # 3 THEN Err(ColorParseError)
      ELSE Rgb([i \in 1..3 |-> parse_css_int(params[i])])

\* parse_rgba: the alpha is parsed (parse_css_float) and, as color.rs keeps
\* r, g and b only, dropped.
parse_rgba(params) ==
   IF Len(params) # 4 THEN Err(ColorParseError)
   ELSE IF IsNone(parse_css_float(params[4])) THEN Err(ColorParseError)
   ELSE parse_rgb(SubSeq(params, 1, 3))

\* parse_hsl: the hue an f32 in degrees, brought to 0..1 by
\* (((h % 360.0) + 360.0) % 360.0) / 360.0, saturation and lightness
\* parse_css_float; then the CSS3 hsl to rgb conversion, in f32 throughout:
\* m2 is l * (s + 1.0) if l <= 0.5 and l + s - l * s otherwise, m1 is
\* l * 2.0 - m2, and r, g and b are css_hue_to_rgb at h + 1/3, h and
\* h - 1/3, times 255.0.
parse_hsl(params) ==
   LET F(m, e) == <<"f32", [kind |-> "fin", neg |-> FALSE, m |-> m, e |-> e]>>
       half == F(8388608, -24)
       one == F(8388608, -23)
       two == F(8388608, -22)
       three == F(12582912, -22)
       c255 == F(16711680, -16)
       c360 == F(11796480, -15)
       Channels(rgb) == Ok(Color(rgb[1], rgb[2], rgb[3]))
       M2(s, l) ==
          <<"if", <<"<=", l, half>>,
            <<"*", l, <<"+", s, one>>>>,
            <<"-", <<"+", l, s>>, <<"*", l, s>>>>>>
       Hue(h) == <<"/", <<"%", <<"+", <<"%", h, c360>>, c360>>, c360>>, c360>>
       \* r, g and b are the channels 1, 2 and 3
       Channel(i, h, s, l) ==
          <<"*", css_hue_to_rgb(<<"-", <<"*", l, two>>, M2(s, l)>>,
                                M2(s, l),
                                IF i = 1 THEN <<"+", Hue(h), <<"/", one, three>>>>
                                ELSE IF i = 2 THEN Hue(h)
                                ELSE <<"-", Hue(h), <<"/", one, three>>>>),
                 c255>>
       Hsl(h, s, l) ==
          IF IsNone(h) \/ IsNone(s) \/ IsNone(l) THEN Err(ColorParseError)
          ELSE Channels([i \in 1..3 |->
                           clamp_css_byte_from_float(
                              f32(Channel(i, <<"f32", Unwrap(h)>>, <<"f32", Unwrap(s)>>,
                                          <<"f32", Unwrap(l)>>)))])
   IN IF Len(params) # 3 THEN Err(ColorParseError)
      ELSE Hsl(ParseF32(params[1]), parse_css_float(params[2]), parse_css_float(params[3]))

\* parse_hsla: as parse_rgba.
parse_hsla(params) ==
   IF Len(params) # 4 THEN Err(ColorParseError)
   ELSE IF IsNone(parse_css_float(params[4])) THEN Err(ColorParseError)
   ELSE parse_hsl(SubSeq(params, 1, 3))

\* css_color_parser2's Color::from_str: the text trimmed, its spaces
\* removed, in lower case; then a colour keyword, or '#' with three or six
\* hexadecimal digits, or fmt(p1,p2,p3[,p4]) with fmt one of rgb, rgba, hsl,
\* hsla.  Anything else is a ColorParseError.
CssColor_from_str(s) ==
   LET trimmed == str_trim(s)
       nospace == SelectSeq(trimmed, LAMBDA c : c # " ")
       string == [i \in 1..Len(nospace) |-> ToLower(nospace[i])]
       named == {i \in 1..Len(NAMED_COLORS) : NAMED_COLORS[i][1] = string}
       n == NAMED_COLORS[Least(named)]
       iv == from_str_radix16(Tail(string))
       x == Unwrap(iv)
       ops == {i \in 1..Len(string) : string[i] = "("}
       eps == {i \in 1..Len(string) : string[i] = ")"}
       op == Least(ops)
       ep == Least(eps)
       fmt == SubSeq(string, 1, op - 1)
       params == str_split(SubSeq(string, op + 1, ep - 1), ",")
   IN IF trimmed = <<>> THEN Err(ColorParseError)
      ELSE IF named # {} THEN Ok(Color(n[2], n[3], n[4]))
      ELSE IF string[1] = "#"
      THEN IF Len(string) = 4
           THEN IF IsNone(iv) THEN Err(ColorParseError)
                ELSE Ok(Color(17 * (x \div 256), 17 * ((x \div 16) % 16), 17 * (x % 16)))
           ELSE IF Len(string) = 7
           THEN IF IsNone(iv) THEN Err(ColorParseError)
                ELSE Ok(Color(x \div 65536, (x \div 256) % 256, x % 256))
           ELSE Err(ColorParseError)
      ELSE IF ops = {} \/ eps = {} THEN Err(ColorParseError)
      ELSE IF ep # Len(string) \/ ep < op THEN Err(ColorParseError)
      ELSE IF fmt = <<>> THEN Err(ColorParseError)
      ELSE IF Len(params) < 3 \/ Len(params) > 4 THEN Err(ColorParseError)
      ELSE IF fmt = <<"r", "g", "b", "a">> THEN parse_rgba(params)
      ELSE IF fmt = <<"r", "g", "b">> THEN parse_rgb(params)
      ELSE IF fmt = <<"h", "s", "l", "a">> THEN parse_hsla(params)
      ELSE IF fmt = <<"h", "s", "l">> THEN parse_hsl(params)
      ELSE Err(ColorParseError)

\* impl FromStr for Color: as written, and on failure with '#' prepended;
\* the error is the parser's, of the second attempt.
Color_from_str(s) ==
   LET OrElse(first, second) == IF first.ok THEN first ELSE second
   IN OrElse(CssColor_from_str(s), CssColor_from_str(<<"#">> \o s))

\* Mutant: a text that does not parse read as the default Color.
Color_visit_str_OrDefault(s) ==
   LET OrDefault(c) == IF c.ok THEN c ELSE Ok(Color(0, 0, 0))
   IN OrDefault(Color_from_str(s))

\* ColorVisitor::visit_str: the parse, its error replaced by
\* "Failed to parse hex color: <value>".
Color_visit_str(s) ==
   LET MapErr(c) == IF c.ok THEN c ELSE Err(ColorError(s))
   IN MapErr(Color_from_str(s))

(* ------------------------------------------------------------------ *)
(* The Options value (lib.rs)                                          *)
(* ------------------------------------------------------------------ *)

\* struct Colors, in declaration order.
ColorFields == <<"fill_color", "fill_color2", "blend_color",
                 "background_color", "buzz_color", "quiet_color">>
\* struct Quirks, in declaration order.
QuirkFields == <<"shift", "load_store", "jump0", "logic", "clip", "vblank",
                 "vf_order", "lores_dxy0", "res_clear", "delay_wrap",
                 "hires_collision", "clip_collision", "scroll", "overflow_i">>
\* The thirteen tri-state flags: every quirk but the lores_dxy0 enum.
FlagFields == Range(QuirkFields) \ {"lores_dxy0"}

Options(tickrate, max_size, screen_rotation, font_style, touch_input_mode, start_address, colors, quirks) ==
   [tickrate |-> tickrate, max_size |-> max_size,
    screen_rotation |-> screen_rotation, font_style |-> font_style,
    touch_input_mode |-> touch_input_mode, start_address |-> start_address,
    colors |-> colors, quirks |-> quirks]

\* impl Default for Colors
Colors_default ==
   [f \in Range(ColorFields) |->
      CASE f = "fill_color" -> Some(Color(255, 255, 255))
        [] f = "fill_color2" -> Some(Color(255, 255, 0))
        [] f = "blend_color" -> Some(Color(255, 0, 0))
        [] f = "background_color" -> Some(Color(0, 0, 0))
        [] f = "buzz_color" -> Some(Color(153, 0, 0))
        [] f = "quiet_color" -> Some(Color(51, 0, 0))]

\* impl Default for Quirks
Quirks_default ==
   [f \in Range(QuirkFields) |->
      CASE f = "lores_dxy0" -> Some(LoResDxy0Behavior_default)
        [] f = "res_clear" -> Some(TRUE)
        [] OTHER -> Some(FALSE)]

\* impl Default for Options
Options_default ==
   Options(Some(500), Some(3584), ScreenRotation_default, Font_default,
           TouchMode_default, Some(512), Colors_default, Quirks_default)

(* ------------------------------------------------------------------ *)
(* Documents                                                           *)
(* ------------------------------------------------------------------ *)

\* A JSON value: <<tag, payload, escaped>>.  `escaped` says that the text of
\* a string contains an escape sequence, which is what decides whether
\* serde_json hands the string out borrowed or copied.
JNull == <<"null", 0, FALSE>>
JBool(b) == <<"bool", b, FALSE>>
JNum(n) == <<"num", n, FALSE>>
JStr(s) == <<"str", s, FALSE>>
JStrEscaped(s) == <<"str", s, TRUE>>
Tag(v) == v[1]
Payload(v) == v[2]

Keys(doc) == {doc[i][1] : i \in 1..Len(doc)}
HasKey(doc, k) == \E i \in 1..Len(doc) : doc[i][1] = k
Get(doc, k) == doc[CHOOSE i \in 1..Len(doc) : doc[i][1] = k][2]
IndexOf(doc, k) == CHOOSE i \in 1..Len(doc) : doc[i][1] = k /\ \A j \in 1..(i - 1) : doc[j][1] # k

\* The concatenation of the sequences ss[1], ss[2], ...
RECURSIVE Concat(_)
Concat(ss) == IF ss = <<>> THEN <<>> ELSE Head(ss) \o Concat(Tail(ss))

\* skip_serializing_none: a field that is None writes nothing, a field that
\* is Some writes its key with x, the encoding of its value.
Field(key, o, x) == IF IsSome(o) THEN << <<key, x>> >> ELSE <<>>

\* A text handed to a decoder or written by an encoder.  It is the text of a
\* JSON object (syntax "json": doc is the sequence of its members, the
\* values JSON values) or a text of key=value lines (syntax "lines": doc is
\* the sequence of its lines, the values the text right of the '=', and
\* style says how the lines are spaced and ended).
JsonText(doc) == [syntax |-> "json", style |-> "compact", doc |-> doc]
LinesText(style, doc) == [syntax |-> "lines", style |-> style, doc |-> doc]

\* serde_json::from_str on a text, down to the members: a JSON object gives
\* its members; a text of key=value lines is no JSON value ("expected
\* value at line 1 column 1"), nor is the empty text ("EOF while parsing a
\* value").
serde_json_from_str(text) ==
   IF text.syntax = "json" THEN Ok(text.doc)
   ELSE IF text.doc = <<>> THEN Err(JsonSyntaxError("EOF while parsing a value"))
   ELSE Err(JsonSyntaxError("expected value"))

(* ------------------------------------------------------------------ *)
(* The structured (JSON) codec (lib.rs)                                *)
(* ------------------------------------------------------------------ *)

\* struct Colors, rename_all = "camelCase".
JsonColorKey(f) ==
   CASE f = "fill_color" -> "fillColor"
     [] f = "fill_color2" -> "fillColor2"
     [] f = "blend_color" -> "blendColor"
     [] f = "background_color" -> "backgroundColor"
     [] f = "buzz_color" -> "buzzColor"
     [] f = "quiet_color" -> "quietColor"

\* Mutant: no rename on the fields of Quirks, rename_all = "camelCase" alone.
JsonQuirkKey_CamelCase(f) ==
   CASE f = "shift" -> "shift"
     [] f = "load_store" -> "loadStore"
     [] f = "jump0" -> "jump0"
     [] f = "logic" -> "logic"
     [] f = "clip" -> "clip"
     [] f = "vblank" -> "vblank"
     [] f = "vf_order" -> "vfOrder"
     [] f = "lores_dxy0" -> "loresDxy0"
     [] f = "res_clear" -> "resClear"
     [] f = "delay_wrap" -> "delayWrap"
     [] f = "hires_collision" -> "hiresCollision"
     [] f = "clip_collision" -> "clipCollision"
     [] f = "scroll" -> "scroll"
     [] f = "overflow_i" -> "overflowI"

\* struct Quirks, the rename of each field.
JsonQuirkKey(f) ==
   CASE f = "shift" -> "shiftQuirks"
     [] f = "load_store" -> "loadStoreQuirks"
     [] f = "jump0" -> "jumpQuirks"
     [] f = "logic" -> "logicQuirks"
     [] f = "clip" -> "clipQuirks"
     [] f = "vblank" -> "vBlankQuirks"
     [] f = "vf_order" -> "vfOrderQuirks"
     [] f = "lores_dxy0" -> "loresDXY0Quirks"
     [] f = "res_clear" -> "resClearQuirks"
     [] f = "delay_wrap" -> "delayWrapQuirks"
     [] f = "hires_collision" -> "hiresCollisionQuirks"
     [] f = "clip_collision" -> "clipCollisionQuirks"
     [] f = "scroll" -> "scrollQuirks"
     [] f = "overflow_i" -> "overflowIQuirks"

\* struct Options, rename_all = "camelCase": the fields that are not flattened.
JsonDirectKeys == <<"tickrate", "maxSize", "screenRotation", "fontStyle",
                    "touchInputMode", "startAddress">>
JsonColorKeys == {JsonColorKey(f) : f \in Range(ColorFields)}
JsonQuirkKeys == {JsonQuirkKey(f) : f \in Range(QuirkFields)}
JsonFlagKeys == {JsonQuirkKey(f) : f \in FlagFields}
JsonKeys == Range(JsonDirectKeys) \cup JsonColorKeys \cup JsonQuirkKeys

\* lib.rs some_u16_from_int_or_str: untagged U16(u16) | Str(&str).  A number
\* is taken if it is a u16.  A string is taken by the Str arm only when it
\* can be borrowed from the input, that is when its text has no escape
\* sequence; it then parses to Some(n) or degrades to None.  Anything else
\* matches no arm.
some_u16_from_int_or_str(v) ==
   CASE Tag(v) = "num" ->
          IF Payload(v) >= 0 /\ Payload(v) <= 65535 THEN Ok(Some(Payload(v)))
          ELSE Err(UntaggedNoMatch("U16OrStr"))
     [] Tag(v) = "str" ->
          IF v[3] THEN Err(UntaggedNoMatch("U16OrStr"))
          ELSE Ok(ParseUnsigned(Payload(v), 65535))
     [] OTHER -> Err(UntaggedNoMatch("U16OrStr"))

\* Mutant: any non-zero u8 taken as true.
some_bool_from_int_Truthy(v) ==
   CASE Tag(v) = "bool" -> Ok(Some(Payload(v)))
     [] Tag(v) = "num" ->
          IF Payload(v) >= 0 /\ Payload(v) <= 255 THEN Ok(Some(Payload(v) # 0))
          ELSE Err(UntaggedNoMatch("BoolOrU8"))
     [] OTHER -> Err(UntaggedNoMatch("BoolOrU8"))

\* lib.rs some_bool_from_int: untagged Bool(bool) | U8(u8), then 1, 0 or
\* the invalid_value error for the other u8 values.
some_bool_from_int(v) ==
   CASE Tag(v) = "bool" -> Ok(Some(Payload(v)))
     [] Tag(v) = "num" ->
          IF Payload(v) = 1 THEN Ok(Some(TRUE))
          ELSE IF Payload(v) = 0 THEN Ok(Some(FALSE))
          ELSE IF Payload(v) >= 0 /\ Payload(v) <= 255
          THEN Err(InvalidValueZeroOrOne(Payload(v)))
          ELSE Err(UntaggedNoMatch("BoolOrU8"))
     [] OTHER -> Err(UntaggedNoMatch("BoolOrU8"))

\* Option<Color> of a flattened Colors: null is None, a string goes to
\* ColorVisitor::visit_str.
JsonColor(v) ==
   LET Visited(c) == IF c.ok THEN Ok(Some(c.val)) ELSE c
   IN CASE Tag(v) = "null" -> Ok(None)
        [] Tag(v) = "str" -> Visited(Color_visit_str(Payload(v)))
        [] OTHER -> Err(InvalidType(Tag(v)))

\* Option<LoResDxy0Behavior> of the flattened Quirks.
JsonLoResDxy0(v) ==
   CASE Tag(v) = "null" -> Ok(None)
     [] Tag(v) = "str" ->
          LET b == VariantFromWire(LoResDxy0Behaviors,
                                   [x \in Range(LoResDxy0Behaviors) |-> LoResDxy0Wire(x)],
                                   Payload(v))
          IN IF b.ok THEN Ok(Some(b.val)) ELSE b
     [] OTHER -> Err(InvalidType(Tag(v)))

\* ScreenRotation, Deserialize_repr over u16.
JsonScreenRotation(v) ==
   IF Tag(v) = "num" /\ Payload(v) >= 0 /\ Payload(v) <= 65535
   THEN RotationFromCode(Payload(v))
   ELSE Err(InvalidType(Tag(v)))

JsonFont(v) ==
   IF Tag(v) = "str" THEN VariantFromWire(Fonts, [x \in Range(Fonts) |-> FontWire(x)], Payload(v))
   ELSE Err(InvalidType(Tag(v)))

JsonTouchMode(v) ==
   IF Tag(v) = "str" THEN VariantFromWire(TouchModes, [x \in Range(TouchModes) |-> TouchModeWire(x)],
                        Payload(v))
   ELSE Err(InvalidType(Tag(v)))

\* The decoder of one key of the structured format.
JsonDecodeKey(k, v) ==
   CASE k \in {"tickrate", "maxSize", "startAddress"} -> some_u16_from_int_or_str(v)
     [] k = "screenRotation" -> JsonScreenRotation(v)
     [] k = "fontStyle" -> JsonFont(v)
     [] k = "touchInputMode" -> JsonTouchMode(v)
     [] k \in JsonColorKeys -> JsonColor(v)
     [] k = "loresDXY0Quirks" -> JsonLoResDxy0(v)
     [] k \in JsonFlagKeys -> some_bool_from_int(v)
     [] OTHER -> Ok(NoValue)

\* Mutant: an absent colour or quirk takes the value of its group's Default.
JsonMissing_GroupDefault(k) ==
   CASE k = "screenRotation" -> ScreenRotation_default
     [] k = "fontStyle" -> Font_default
     [] k = "touchInputMode" -> TouchMode_default
     [] k \in JsonColorKeys ->
          Colors_default[CHOOSE f \in Range(ColorFields) : JsonColorKey(f) = k]
     [] k \in JsonQuirkKeys ->
          Quirks_default[CHOOSE f \in Range(QuirkFields) : JsonQuirkKey(f) = k]
     [] OTHER -> None

\* serde(default) and Option: what an absent key decodes to.
JsonMissing(k) ==
   CASE k = "screenRotation" -> ScreenRotation_default
     [] k = "fontStyle" -> Font_default
     [] k = "touchInputMode" -> TouchMode_default
     [] OTHER -> None

\* The field read from key k: the decoded value when the key is there.
FieldOf(doc, decoded, k, missing) ==
   IF HasKey(doc, k) THEN decoded[IndexOf(doc, k)].val ELSE missing

\* The entry at position i has the key of an earlier entry.
Repeats(doc, i) == \E j \in 1..(i - 1) : doc[j][1] = doc[i][1]

\* The positions of the document whose key is in `keys` and that the
\* derived visitor fails at: the key has been seen before (serde's
\* duplicate_field, raised before the value is read), or the decoder of
\* the key rejects the value.
BadAt(doc, decoded, keys) ==
   {i \in 1..Len(doc) : doc[i][1] \in keys /\ (Repeats(doc, i) \/ ~decoded[i].ok)}

\* The failure at position i.
ErrorAt(doc, decoded, i) ==
   IF Repeats(doc, i) THEN DuplicateField(doc[i][1]) ELSE decoded[i].err

\* The derived Deserialize of a struct with flattened groups: the direct
\* fields are decoded as the map is read, in document order, the other
\* entries are buffered; then Colors and then Quirks are decoded from the
\* buffer, each in document order.  The first failure is the result.
FirstError(doc, decoded, directKeys, colorKeys, quirkKeys) ==
   LET d == BadAt(doc, decoded, directKeys)
       c == BadAt(doc, decoded, colorKeys)
       q == BadAt(doc, decoded, quirkKeys)
   IN IF d # {} THEN ErrorAt(doc, decoded, Least(d))
      ELSE IF c # {} THEN ErrorAt(doc, decoded, Least(c))
      ELSE IF q # {} THEN ErrorAt(doc, decoded, Least(q))
      ELSE NoError

\* impl FromStr for Options: serde_json::from_str.
\* Mutant: a member whose key no struct names is an error
\* (deny_unknown_fields).
Options_from_str_DenyUnknown(doc) ==
   LET Visit(decoded, e) ==
          LET field(k) == FieldOf(doc, decoded, k, JsonMissing(k))
          IN IF \E i \in 1..Len(doc) : doc[i][1] \notin JsonKeys
             THEN Err(<<"unknown_field", "author">>)
             ELSE IF e # NoError THEN Err(e)
             ELSE Ok(Options(field("tickrate"), field("maxSize"),
                             field("screenRotation"), field("fontStyle"),
                             field("touchInputMode"), field("startAddress"),
                             [f \in Range(ColorFields) |-> field(JsonColorKey(f))],
                             [f \in Range(QuirkFields) |-> field(JsonQuirkKey(f))]))
       Decoded(decoded) ==
          Visit(decoded, FirstError(doc, decoded, Range(JsonDirectKeys), JsonColorKeys,
                                    JsonQuirkKeys))
   IN Decoded([i \in 1..Len(doc) |-> JsonDecodeKey(doc[i][1], doc[i][2])])

\* Each member is decoded by the decoder of its key (decoded), the first
\* failure (e) is the result, and otherwise each field is taken from its
\* member.
Options_from_str(doc) ==
   LET Visit(decoded, e) ==
          LET field(k) == FieldOf(doc, decoded, k, JsonMissing(k))
          IN IF e # NoError THEN Err(e)
             ELSE Ok(Options(field("tickrate"), field("maxSize"),
                             field("screenRotation"), field("fontStyle"),
                             field("touchInputMode"), field("startAddress"),
                             [f \in Range(ColorFields) |-> field(JsonColorKey(f))],
                             [f \in Range(QuirkFields) |-> field(JsonQuirkKey(f))]))
       Decoded(decoded) ==
          Visit(decoded, FirstError(doc, decoded, Range(JsonDirectKeys), JsonColorKeys,
                                    JsonQuirkKeys))
   IN Decoded([i \in 1..Len(doc) |-> JsonDecodeKey(doc[i][1], doc[i][2])])

\* Mutant: a flag written as the u8 1 or 0 (a serialize_with as in ini.rs).
JsonQuirkValue_AsInt(f, x) ==
   IF f = "lores_dxy0" THEN JStr(LoResDxy0Wire(x))
   ELSE IF x THEN JNum(1) ELSE JNum(0)

\* Serialize for Option<bool> of struct Quirks: serde's own, a JSON boolean.
JsonQuirkValue(f, x) ==
   IF f = "lores_dxy0" THEN JStr(LoResDxy0Wire(x)) ELSE JBool(x)

\* Mutant: the colour written without its '#'.
Color_serialize_NoHash(c) == JStr(Tail(Color_fmt(c)))

\* impl Serialize for Color: the Display form as a string.
Color_serialize(c) == JStr(Color_fmt(c))

\* impl fmt::Display for Options: serde_json::to_string, the fields in
\* declaration order, the None ones skipped, Colors and Quirks flattened.
\* Mutant: an enum that holds its default is left out, as a None is.
Options_to_string_SkipDefaultEnums(o) ==
   Field("tickrate", o.tickrate, JNum(Unwrap(o.tickrate)))
   \o Field("maxSize", o.max_size, JNum(Unwrap(o.max_size)))
   \o (IF o.screen_rotation = "Normal" THEN <<>>
       ELSE << <<"screenRotation", JNum(RotationCode(o.screen_rotation))>> >>)
   \o (IF o.font_style = "Octo" THEN <<>>
       ELSE << <<"fontStyle", JStr(FontWire(o.font_style))>> >>)
   \o (IF o.touch_input_mode = "None" THEN <<>>
       ELSE << <<"touchInputMode", JStr(TouchModeWire(o.touch_input_mode))>> >>)
   \o Field("startAddress", o.start_address, JNum(Unwrap(o.start_address)))
   \o Concat([i \in 1..Len(ColorFields) |->
                LET f == ColorFields[i]
                IN Field(JsonColorKey(f), o.colors[f],
                         Color_serialize(Unwrap(o.colors[f])))])
   \o Concat([i \in 1..Len(QuirkFields) |->
                LET f == QuirkFields[i]
                IN Field(JsonQuirkKey(f), o.quirks[f],
                         JsonQuirkValue(f, Unwrap(o.quirks[f])))])

Options_to_string(o) ==
   Field("tickrate", o.tickrate, JNum(Unwrap(o.tickrate)))
   \o Field("maxSize", o.max_size, JNum(Unwrap(o.max_size)))
   \o << <<"screenRotation", JNum(RotationCode(o.screen_rotation))>>,
         <<"fontStyle", JStr(FontWire(o.font_style))>>,
         <<"touchInputMode", JStr(TouchModeWire(o.touch_input_mode))>> >>
   \o Field("startAddress", o.start_address, JNum(Unwrap(o.start_address)))
   \o Concat([i \in 1..Len(ColorFields) |->
                LET f == ColorFields[i]
                IN Field(JsonColorKey(f), o.colors[f],
                         Color_serialize(Unwrap(o.colors[f])))])
   \o Concat([i \in 1..Len(QuirkFields) |->
                LET f == QuirkFields[i]
                IN Field(JsonQuirkKey(f), o.quirks[f],
                         JsonQuirkValue(f, Unwrap(o.quirks[f])))])

(* ------------------------------------------------------------------ *)
(* The flat (INI) codec (ini.rs, and from_ini / to_ini of lib.rs)      *)
(* ------------------------------------------------------------------ *)

\* struct OctoColorsIni, the rename of each field.
IniColorKey(f) ==
   CASE f = "fill_color" -> "colors.plane1"
     [] f = "fill_color2" -> "colors.plane2"
     [] f = "blend_color" -> "colors.plane3"
     [] f = "background_color" -> "colors.plane0"
     [] f = "buzz_color" -> "colors.sound"
     [] f = "quiet_color" -> "colors.background"

\* struct OctoQuirksIni, the rename of each field.
IniQuirkKey(f) ==
   CASE f = "shift" -> "quirks.shift"
     [] f = "load_store" -> "quirks.loadstore"
     [] f = "jump0" -> "quirks.jump0"
     [] f = "logic" -> "quirks.logic"
     [] f = "clip" -> "quirks.clip"
     [] f = "vblank" -> "quirks.vblank"
     [] f = "vf_order" -> "quirks.vforder"
     [] f = "lores_dxy0" -> "quirks.lores_dxy0"
     [] f = "res_clear" -> "quirks.resclear"
     [] f = "delay_wrap" -> "quirks.delaywrap"
     [] f = "hires_collision" -> "quirks.hirescollision"
     [] f = "clip_collision" -> "quirks.clipcollision"
     [] f = "scroll" -> "quirks.scroll"
     [] f = "overflow_i" -> "quirks.overflow_i"

\* struct OctoOptionsIni, the rename of each field that is not flattened.
IniDirectKeys == <<"core.tickrate", "core.max_rom", "core.rotation", "core.font",
                   "core.touch_mode", "core.start_address">>
IniColorKeys == {IniColorKey(f) : f \in Range(ColorFields)}
IniQuirkKeys == {IniQuirkKey(f) : f \in Range(QuirkFields)}
IniFlagKeys == {IniQuirkKey(f) : f \in FlagFields}
IniKeys == Range(IniDirectKeys) \cup IniColorKeys \cup IniQuirkKeys

\* The record types of ini.rs have the fields of the Options tree under the
\* same names; the From impls copy them one by one.
OctoColorsIni_from(colors) ==
   [f \in Range(ColorFields) |->
      CASE f = "fill_color" -> colors["fill_color"]
        [] f = "fill_color2" -> colors["fill_color2"]
        [] f = "blend_color" -> colors["blend_color"]
        [] f = "background_color" -> colors["background_color"]
        [] f = "buzz_color" -> colors["buzz_color"]
        [] f = "quiet_color" -> colors["quiet_color"]]

OctoColors_from(colors) ==
   [f \in Range(ColorFields) |->
      CASE f = "fill_color" -> colors["fill_color"]
        [] f = "fill_color2" -> colors["fill_color2"]
        [] f = "blend_color" -> colors["blend_color"]
        [] f = "background_color" -> colors["background_color"]
        [] f = "buzz_color" -> colors["buzz_color"]
        [] f = "quiet_color" -> colors["quiet_color"]]

\* Mutant: an unspecified flag given its "disabled" value on the way out.
OctoQuirksIni_from_Defaulting(quirks) ==
   [f \in Range(QuirkFields) |->
      IF f \in FlagFields /\ IsNone(quirks[f]) THEN Some(FALSE) ELSE quirks[f]]
OctoQuirksIni_from(quirks) == [f \in Range(QuirkFields) |-> quirks[f]]
OctoQuirks_from(quirks) == [f \in Range(QuirkFields) |-> quirks[f]]

\* The enum conversions: each variant to the variant of the same name.
ScreenRotationIni_from(r) ==
   CASE r = "Normal" -> "Normal"
     [] r = "ClockWise" -> "ClockWise"
     [] r = "CounterClockWise" -> "CounterClockWise"
     [] r = "UpsideDown" -> "UpsideDown"
ScreenRotation_from(r) ==
   CASE r = "Normal" -> "Normal"
     [] r = "ClockWise" -> "ClockWise"
     [] r = "CounterClockWise" -> "CounterClockWise"
     [] r = "UpsideDown" -> "UpsideDown"
OctoFontIni_from(font) == CHOOSE v \in Range(Fonts) : v = font
OctoFont_from(font) == CHOOSE v \in Range(Fonts) : v = font
OctoTouchModeIni_from(touch) == CHOOSE v \in Range(TouchModes) : v = touch
OctoTouchMode_from(touch) == CHOOSE v \in Range(TouchModes) : v = touch

\* impl From<OctoOptions> for OctoOptionsIni
OctoOptionsIni_from(options) ==
   [tickrate |-> options.tickrate,
    max_size |-> options.max_size,
    screen_rotation |-> ScreenRotationIni_from(options.screen_rotation),
    font_style |-> OctoFontIni_from(options.font_style),
    touch_input_mode |-> OctoTouchModeIni_from(options.touch_input_mode),
    start_address |-> options.start_address,
    colors |-> OctoColorsIni_from(options.colors),
    quirks |-> OctoQuirksIni_from(options.quirks)]

\* impl From<OctoOptionsIni> for OctoOptions
OctoOptions_from(options) ==
   Options(options.tickrate,
           options.max_size,
           ScreenRotation_from(options.screen_rotation),
           OctoFont_from(options.font_style),
           OctoTouchMode_from(options.touch_input_mode),
           options.start_address,
           OctoColors_from(options.colors),
           OctoQuirks_from(options.quirks))

\* ini.rs without_hash: unwraps, formats, drops a leading '#', and writes
\* the rest as a string (serialize_str).
\* Mutant: the colour written as Display gives it, '#' included.
without_hash_Keeping(color) ==
   IF IsNone(color) THEN Panic("without_hash") ELSE JStr(Color_fmt(Unwrap(color)))

without_hash(color) ==
   IF IsNone(color) THEN Panic("without_hash")
   ELSE LET color_str == Color_fmt(Unwrap(color))
        IN IF Len(color_str) > 0 /\ color_str[1] = "#" THEN JStr(Tail(color_str))
           ELSE JStr(color_str)

\* ini.rs int_from_some_bool: unwraps, writes the u8 1 or 0 (serialize_u8,
\* a number).
int_from_some_bool(some_bool) ==
   IF IsNone(some_bool) THEN Panic("int_from_some_bool")
   ELSE IF Unwrap(some_bool) THEN JNum(1) ELSE JNum(0)

\* Mutant: no skip_serializing_none on OctoColorsIni, whose fields are then
\* serialized whether they are Some or None.
IniField_ColorsNotSkipped(key, o, x) ==
   IF IsSome(o) \/ key \in IniColorKeys THEN << <<key, x>> >> ELSE <<>>

\* skip_serializing_none with serialize_with: the serializer gets the Option
\* itself, and only when it is Some.
IniField(key, o, x) == IF IsSome(o) THEN << <<key, x>> >> ELSE <<>>

\* impl fmt::Display for OctoOptionsIni: serde_json::to_string, the text of
\* a JSON object with the fields in declaration order under their dotted
\* names, the None ones skipped.
OctoOptionsIni_to_string(ini) ==
   JsonText(
      IniField("core.tickrate", ini.tickrate, JNum(Unwrap(ini.tickrate)))
      \o IniField("core.max_rom", ini.max_size, JNum(Unwrap(ini.max_size)))
      \o << <<"core.rotation", JNum(RotationCode(ini.screen_rotation))>>,
            <<"core.font", JStr(FontIniWire(ini.font_style))>>,
            <<"core.touch_mode", JStr(TouchModeIniWire(ini.touch_input_mode))>> >>
      \o IniField("core.start_address", ini.start_address,
                  JNum(Unwrap(ini.start_address)))
      \o Concat([i \in 1..Len(ColorFields) |->
                   LET f == ColorFields[i]
                   IN IniField(IniColorKey(f), ini.colors[f],
                               without_hash(ini.colors[f]))])
      \o Concat([i \in 1..Len(QuirkFields) |->
                   LET f == QuirkFields[i]
                   IN IniField(IniQuirkKey(f), ini.quirks[f],
                               IF f = "lores_dxy0"
                               THEN JStr(LoResDxy0Wire(Unwrap(ini.quirks[f])))
                               ELSE int_from_some_bool(ini.quirks[f]))]))

\* Options::to_ini
Options_to_ini(o) == OctoOptionsIni_to_string(OctoOptionsIni_from(o))

\* An Option<u16> of OctoOptionsIni: null is None, a number is taken if it
\* is a u16, anything else (a string of digits too) is refused.
IniU16(v) ==
   CASE Tag(v) = "null" -> Ok(None)
     [] Tag(v) = "num" ->
          IF Payload(v) >= 0 /\ Payload(v) <= 65535 THEN Ok(Some(Payload(v)))
          ELSE Err(InvalidType(Tag(v)))
     [] OTHER -> Err(InvalidType(Tag(v)))

\* ScreenRotationIni, Deserialize_repr over u16.
IniScreenRotation(v) ==
   IF Tag(v) = "num" /\ Payload(v) >= 0 /\ Payload(v) <= 65535
   THEN RotationFromCode(Payload(v))
   ELSE Err(InvalidType(Tag(v)))

IniFont(v) ==
   IF Tag(v) = "str"
   THEN VariantFromWire(Fonts, [x \in Range(Fonts) |-> FontIniWire(x)], Payload(v))
   ELSE Err(InvalidType(Tag(v)))

IniTouchMode(v) ==
   IF Tag(v) = "str"
   THEN VariantFromWire(TouchModes, [x \in Range(TouchModes) |-> TouchModeIniWire(x)],
                        Payload(v))
   ELSE Err(InvalidType(Tag(v)))

\* Option<Color> of the flattened OctoColorsIni: null is None, a string goes
\* to ColorVisitor::visit_str.
IniColor(v) ==
   LET Visited(c) == IF c.ok THEN Ok(Some(c.val)) ELSE c
   IN CASE Tag(v) = "null" -> Ok(None)
        [] Tag(v) = "str" -> Visited(Color_visit_str(Payload(v)))
        [] OTHER -> Err(InvalidType(Tag(v)))

\* ini.rs some_bool_from_int: String::deserialize, which takes a string and
\* nothing else; its text parsed as a u8 and unwrapped; then 1, 0 or the
\* invalid_value error.
ini_some_bool_from_int(v) ==
   LET n == ParseUnsigned(Payload(v), 255)
   IN IF Tag(v) # "str" THEN Err(InvalidType(Tag(v)))
      ELSE IF IsNone(n) THEN Err(Panic("some_bool_from_int"))
      ELSE IF Unwrap(n) = 1 THEN Ok(Some(TRUE))
      ELSE IF Unwrap(n) = 0 THEN Ok(Some(FALSE))
      ELSE Err(InvalidValueZeroOrOne(Unwrap(n)))

\* Option<LoResDxy0Behavior> of the flattened OctoQuirksIni.
IniLoResDxy0(v) ==
   CASE Tag(v) = "null" -> Ok(None)
     [] Tag(v) = "str" ->
          LET b == VariantFromWire(LoResDxy0Behaviors,
                                   [x \in Range(LoResDxy0Behaviors) |-> LoResDxy0Wire(x)],
                                   Payload(v))
          IN IF b.ok THEN Ok(Some(b.val)) ELSE b
     [] OTHER -> Err(InvalidType(Tag(v)))

\* The decoder of one key of the flat format.
IniDecodeKey(k, v) ==
   CASE k \in {"core.tickrate", "core.max_rom", "core.start_address"} -> IniU16(v)
     [] k = "core.rotation" -> IniScreenRotation(v)
     [] k = "core.font" -> IniFont(v)
     [] k = "core.touch_mode" -> IniTouchMode(v)
     [] k \in IniColorKeys -> IniColor(v)
     [] k = "quirks.lores_dxy0" -> IniLoResDxy0(v)
     [] k \in IniFlagKeys -> ini_some_bool_from_int(v)
     [] OTHER -> Ok(NoValue)

\* Mutant: an absent colour takes the value Colors::default() gives it.
IniMissing_ColorsDefault(k) ==
   CASE k = "core.rotation" -> ScreenRotation_default
     [] k = "core.font" -> Font_default
     [] k = "core.touch_mode" -> TouchMode_default
     [] k \in IniColorKeys ->
          Colors_default[CHOOSE f \in Range(ColorFields) : IniColorKey(f) = k]
     [] OTHER -> None

\* serde(default) and Option: what an absent key decodes to.
IniMissing(k) ==
   CASE k = "core.rotation" -> ScreenRotation_default
     [] k = "core.font" -> Font_default
     [] k = "core.touch_mode" -> TouchMode_default
     [] OTHER -> None

\* impl FromStr for OctoOptionsIni: serde_json::from_str.  The text has to
\* be a JSON object; its members are then decoded by the derived
\* Deserialize of OctoOptionsIni.
OctoOptionsIni_from_str(text) ==
   LET Visit(doc, decoded, e) ==
          LET field(k) == FieldOf(doc, decoded, k, IniMissing(k))
          IN IF e # NoError THEN Err(e)
             ELSE Ok([tickrate |-> field("core.tickrate"),
                      max_size |-> field("core.max_rom"),
                      screen_rotation |-> field("core.rotation"),
                      font_style |-> field("core.font"),
                      touch_input_mode |-> field("core.touch_mode"),
                      start_address |-> field("core.start_address"),
                      colors |-> [f \in Range(ColorFields) |-> field(IniColorKey(f))],
                      quirks |-> [f \in Range(QuirkFields) |-> field(IniQuirkKey(f))]])
       Decoded(doc, decoded) ==
          Visit(doc, decoded, FirstError(doc, decoded, Range(IniDirectKeys), IniColorKeys,
                                         IniQuirkKeys))
       parsed == serde_json_from_str(text)
       doc == parsed.val
   IN IF ~parsed.ok THEN parsed
      ELSE Decoded(doc, [i \in 1..Len(doc) |-> IniDecodeKey(doc[i][1], doc[i][2])])

\* Options::from_ini
Options_from_ini(text) ==
   LET Converted(ini) == IF ini.ok THEN Ok(OctoOptions_from(ini.val)) ELSE ini
   IN Converted(OctoOptionsIni_from_str(text))

(* ------------------------------------------------------------------ *)
(* Input documents                                                     *)
(* ------------------------------------------------------------------ *)

\* The document of tests/tests.rs (the options Octo sets for a new game).
JsonOctoDefaults ==
   << <<"tickrate", JNum(20)>>,
      <<"fillColor", JStr(<<"#", "F", "F", "C", "C", "0", "0">>)>>,
      <<"fillColor2", JStr(<<"#", "F", "F", "6", "6", "0", "0">>)>>,
      <<"blendColor", JStr(<<"#", "6", "6", "2", "2", "0", "0">>)>>,
      <<"backgroundColor", JStr(<<"#", "9", "9", "6", "6", "0", "0">>)>>,
      <<"buzzColor", JStr(<<"#", "F", "F", "A", "A", "0", "0">>)>>,
      <<"quietColor", JStr(<<"#", "0", "0", "0", "0", "0", "0">>)>>,
      <<"shiftQuirks", JNum(0)>>,
      <<"loadStoreQuirks", JNum(0)>>,
      <<"vfOrderQuirks", JNum(0)>>,
      <<"clipQuirks", JNum(1)>>,
      <<"vBlankQuirks", JNum(1)>>,
      <<"jumpQuirks", JNum(0)>>,
      <<"screenRotation", JNum(0)>>,
      <<"maxSize", JNum(3215)>>,
      <<"touchInputMode", JStr(<<"n", "o", "n", "e">>)>>,
      <<"logicQuirks", JNum(1)>>,
      <<"fontStyle", JStr(<<"o", "c", "t", "o">>)>> >>

\* A document that gives every key of the structured format.
JsonFull ==
   << <<"tickrate", JNum(1000)>>,
      <<"maxSize", JNum(65024)>>,
      <<"screenRotation", JNum(270)>>,
      <<"fontStyle", JStr(<<"a", "k", "o", "u", "z", "1">>)>>,
      <<"touchInputMode", JStr(<<"s", "e", "g", "1", "6", "f", "i", "l", "l">>)>>,
      <<"startAddress", JNum(1536)>>,
      <<"fillColor", JStr(<<"#", "1", "2", "3", "4", "5", "6">>)>>,
      <<"fillColor2", JStr(<<"#", "7", "8", "9", "A", "B", "C">>)>>,
      <<"blendColor", JStr(<<"#", "D", "E", "F", "0", "1", "2">>)>>,
      <<"backgroundColor", JStr(<<"#", "3", "4", "5", "6", "7", "8">>)>>,
      <<"buzzColor", JStr(<<"#", "9", "A", "B", "C", "D", "E">>)>>,
      <<"quietColor", JStr(<<"#", "F", "0", "1", "2", "3", "4">>)>>,
      <<"shiftQuirks", JNum(1)>>,
      <<"loadStoreQuirks", JNum(0)>>,
      <<"jumpQuirks", JNum(1)>>,
      <<"logicQuirks", JNum(0)>>,
      <<"clipQuirks", JNum(1)>>,
      <<"vBlankQuirks", JNum(0)>>,
      <<"vfOrderQuirks", JNum(1)>>,
      <<"loresDXY0Quirks", JStr(<<"t", "a", "l", "l", "_", "s", "p", "r", "i", "t", "e">>)>>,
      <<"resClearQuirks", JNum(0)>>,
      <<"delayWrapQuirks", JNum(1)>>,
      <<"hiresCollisionQuirks", JNum(0)>>,
      <<"clipCollisionQuirks", JNum(1)>>,
      <<"scrollQuirks", JNum(0)>>,
      <<"overflowIQuirks", JNum(1)>> >>

JsonBases == {<<>>, JsonOctoDefaults, JsonFull}

\* The values tried for each key of the structured format.
JsonValuesFor(k) ==
   CASE k \in {"tickrate", "maxSize", "startAddress"} ->
          { JNum(0),
            JNum(20),
            JNum(65535),
            JNum(65536),
            JNum(-1),
            JNum(70000),
            JStr(<<"7", "0", "0", "0", "0">>),
            JStrEscaped(<<"7", "0", "0", "0", "0">>),
            JStr(<<"2", "0">>),
            JStr(<<"6", "5", "5", "3", "5">>),
            JStr(<<"6", "5", "5", "3", "6">>),
            JStr(<<"f", "a", "s", "t">>),
            JStr(<<>>),
            JStr(<<"+", "7">>),
            JStr(<<"0", "0", "7">>),
            JStr(<<"-", "1">>),
            JStr(<<" ", "2", "0">>),
            JStrEscaped(<<"f", "a", "\t", "s", "t">>),
            JStrEscaped(<<"2", "0">>),
            JNull,
            JBool(TRUE) }
     [] k = "screenRotation" ->
          { JNum(0),
            JNum(90),
            JNum(180),
            JNum(270),
            JNum(45),
            JNum(65536),
            JNum(-90),
            JStr(<<"9", "0">>),
            JNull }
     [] k = "fontStyle" ->
          {JStr(FontWire(v)) : v \in Range(Fonts)}
          \cup {JStr(FontIniWire(v)) : v \in Range(Fonts)}
          \cup {JStr(VariantName("Octo")), JStrEscaped(FontWire("Vip")), JNull, JNum(0)}
     [] k = "touchInputMode" ->
          {JStr(TouchModeWire(v)) : v \in Range(TouchModes)}
          \cup {JStr(RenameSnakeCase(VariantName(v))) : v \in Range(TouchModes)}
          \cup {JStr(VariantName("None")), JNull, JNum(0)}
     [] k \in JsonColorKeys ->
          { JStr(<<"#", "F", "F", "C", "C", "0", "0">>),
            JStr(<<"F", "F", "C", "C", "0", "0">>),
            JStr(<<"#", "f", "f", "c", "c", "0", "0">>),
            JStr(<<"#", "F", "C", "0">>),
            JStr(<<"1", "a", "2", "B", "3", "c">>),
            JStr(<<"#", "G", "G", "0", "0", "0", "0">>),
            JStr(<<"#", "F", "F", "C", "C", "0">>),
            JStr(<<"F", "F", "C", "C", "0", "G">>),
            JStr(<<"o", "c", "t", "o">>),
            JStr(<<>>),
            JStr(<<"r", "e", "d">>),
            JStr(<<"R", "e", "b", "e", "c", "c", "a", "P", "u", "r", "p", "l", "e">>),
            JStr(<<"r", "g", "b", "(", "2", "5", "5", ",", "0", ",", "0", ")">>),
            JStr(<<"r", "g", "b", "a", "(", "0", ",", " ", "5", "0", "%", ",", " ",
                   "3", "0", "0", ",", " ", "0", ".", "5", ")">>),
            JStr(<<"h", "s", "l", "(", "2", "1", "0", ",", "5", "0", "%", ",",
                   "4", "0", "%", ")">>),
            JStr(<<"r", "g", "b", "(", "2", "5", "5", ",", "0", ")">>),
            JStr(<<" ", "#", "f", "c", "0", " ">>),
            JStrEscaped(<<"\f", "r", "e", "d">>),
            JStr(<<"U+00A0", "#", "f", "c", "0", "U+00A0">>),
            JStr(<<"h", "s", "l", "(", "2", "0", "0", "0", "0", "0", "0", ",", "1", "0", "0", "%", ",", "5", "0", "%", ")">>),
            JStr(<<"h", "s", "l", "(", "1", "e", "3", "9", ",", "1", "0", "0", "%", ",", "5", "0", "%", ")">>),
            JStr(<<"r", "g", "b", "(", "0", ".", "1", "9", "6", "1", "%", ",", "0", ",", "0", ")">>),
            JNull,
            JNum(0) }
     [] k = "loresDXY0Quirks" ->
          {JStr(LoResDxy0Wire(v)) : v \in Range(LoResDxy0Behaviors)}
          \cup {JStr(RenameLowercase(VariantName(v))) : v \in Range(LoResDxy0Behaviors)}
          \cup {JNull, JBool(TRUE)}
     [] k \in JsonFlagKeys ->
          { JBool(TRUE),
            JBool(FALSE),
            JNum(0),
            JNum(1),
            JNum(2),
            JNum(255),
            JNum(256),
            JNum(-1),
            JStr(<<"1">>),
            JNull }
     [] OTHER ->
          {JStr(<<"x">>), JNum(2), JNull}

\* The document with key k given the value v: in place when the key is
\* there, at the end when it is not.  No document has a key twice.
SetKey(doc, k, v) ==
   IF HasKey(doc, k) THEN [doc EXCEPT ![IndexOf(doc, k)] = <<k, v>>]
   ELSE Append(doc, <<k, v>>)

RemoveKey(doc, k) == SelectSeq(doc, LAMBDA p : p[1] # k)

\* The structured documents decoded: each base, each base without one key,
\* and each base with one key given each of the values tried for it.
\* Documents that leave out many keys at once: every prefix and every suffix
\* of a base, and every second key of it.
Thinned(doc) ==
   LET Prefixes == {SubSeq(doc, 1, n) : n \in 0..Len(doc)}
       Suffixes == {SubSeq(doc, n, Len(doc)) : n \in 1..Len(doc)}
       Alternate(r) == SelectSeq(doc, LAMBDA p : IndexOf(doc, p[1]) % 2 = r)
   IN Prefixes \cup Suffixes \cup {Alternate(0), Alternate(1)}

\* The documents given to the structured decoder: each base, with unknown
\* keys, with keys left out, with one key given each of the values tried for
\* it, and documents that give a key twice (a direct field, a colour and a
\* quirk, each with the second value good or bad, and a key that belongs to
\* no struct).  With unknown keys: three members of keys that belong to no
\* struct, one before the first member, one in the middle and one after the
\* last.
JsonInputs ==
   LET JsonWithUnknown(doc) ==
          << <<"author", JStr(<<"x">>)>> >>
          \o SubSeq(doc, 1, Len(doc) \div 2)
          \o << <<"enableXO", JBool(TRUE)>> >>
          \o SubSeq(doc, (Len(doc) \div 2) + 1, Len(doc))
          \o << <<"shift_quirks", JNum(2)>> >>
   IN
   JsonBases
   \cup { << <<"tickrate", JNum(1)>>, <<"tickrate", JNum(2)>> >>,
          << <<"tickrate", JNum(1)>>, <<"maxSize", JNum(3)>>,
             <<"tickrate", JBool(TRUE)>> >>,
          << <<"shiftQuirks", JNum(1)>>, <<"shiftQuirks", JNum(0)>> >>,
          << <<"fillColor", JNull>>, <<"fillColor", JNull>> >>,
          << <<"shiftQuirks", JNum(1)>>, <<"fillColor", JNull>>,
             <<"shiftQuirks", JNum(1)>>, <<"fillColor", JNum(0)>> >>,
          << <<"author", JNum(1)>>, <<"tickrate", JNum(1)>>, <<"author", JNum(2)>> >> }
   \cup {JsonWithUnknown(b) : b \in JsonBases}
   \cup Thinned(JsonFull)
   \cup {RemoveKey(b, k) : b \in JsonBases, k \in JsonKeys}
   \cup UNION {{SetKey(b, k, v) : v \in JsonValuesFor(k)} :
                 b \in JsonBases, k \in JsonKeys \cup {"author"}}

\* The flat document of tests/tests.rs.
IniOctoDefaults ==
   << <<"core.tickrate", <<"2", "0">>>>,
      <<"core.max_rom", <<"3", "2", "1", "5">>>>,
      <<"core.rotation", <<"0">>>>,
      <<"core.font", <<"o", "c", "t", "o">>>>,
      <<"core.touch_mode", <<"n", "o", "n", "e">>>>,
      <<"colors.plane0", <<"#", "9", "9", "6", "6", "0", "0">>>>,
      <<"colors.plane1", <<"F", "F", "C", "C", "0", "0">>>>,
      <<"colors.plane2", <<"F", "F", "6", "6", "0", "0">>>>,
      <<"colors.plane3", <<"6", "6", "2", "2", "0", "0">>>>,
      <<"colors.background", <<"0", "0", "0", "0", "0", "0">>>>,
      <<"colors.sound", <<"F", "F", "A", "A", "0", "0">>>>,
      <<"quirks.shift", <<"0">>>>,
      <<"quirks.loadstore", <<"0">>>>,
      <<"quirks.clip", <<"1">>>>,
      <<"quirks.vblank", <<"1">>>>,
      <<"quirks.jump0", <<"0">>>>,
      <<"quirks.logic", <<"1">>>>,
      <<"quirks.vforder", <<"0">>>> >>

\* A flat document that gives every key of the flat format.
IniFull ==
   << <<"core.tickrate", <<"1", "0", "0", "0">>>>,
      <<"core.max_rom", <<"6", "5", "0", "2", "4">>>>,
      <<"core.rotation", <<"2", "7", "0">>>>,
      <<"core.font", <<"a", "_", "k", "o", "u", "_", "z", "1">>>>,
      <<"core.touch_mode", <<"s", "e", "g", "1", "6", "f", "i", "l", "l">>>>,
      <<"core.start_address", <<"1", "5", "3", "6">>>>,
      <<"colors.plane1", <<"1", "2", "3", "4", "5", "6">>>>,
      <<"colors.plane2", <<"7", "8", "9", "A", "B", "C">>>>,
      <<"colors.plane3", <<"D", "E", "F", "0", "1", "2">>>>,
      <<"colors.plane0", <<"3", "4", "5", "6", "7", "8">>>>,
      <<"colors.sound", <<"9", "A", "B", "C", "D", "E">>>>,
      <<"colors.background", <<"F", "0", "1", "2", "3", "4">>>>,
      <<"quirks.shift", <<"1">>>>,
      <<"quirks.loadstore", <<"0">>>>,
      <<"quirks.jump0", <<"1">>>>,
      <<"quirks.logic", <<"0">>>>,
      <<"quirks.clip", <<"1">>>>,
      <<"quirks.vblank", <<"0">>>>,
      <<"quirks.vforder", <<"1">>>>,
      <<"quirks.lores_dxy0", <<"t", "a", "l", "l", "_", "s", "p", "r", "i", "t", "e">>>>,
      <<"quirks.resclear", <<"0">>>>,
      <<"quirks.delaywrap", <<"1">>>>,
      <<"quirks.hirescollision", <<"0">>>>,
      <<"quirks.clipcollision", <<"1">>>>,
      <<"quirks.scroll", <<"0">>>>,
      <<"quirks.overflow_i", <<"1">>>> >>

\* A flat text that gives only some of the keys.
IniSomeKeys ==
   << <<"core.tickrate", <<"2", "0">>>>,
      <<"core.max_rom", <<"3", "2", "1", "5">>>>,
      <<"core.rotation", <<"0">>>>,
      <<"core.font", <<"o", "c", "t", "o">>>>,
      <<"core.touch_mode", <<"n", "o", "n", "e">>>>,
      <<"colors.plane0", <<"9", "9", "6", "6", "0", "0">>>>,
      <<"quirks.shift", <<"0">>>>,
      <<"quirks.logic", <<"1">>>> >>

\* The settings of a text of lines as the members of a JSON object under the
\* same keys: the integers as numbers, everything else as a string.
AsObject(lines) ==
   [i \in 1..Len(lines) |->
      LET k == lines[i][1]
          n == ParseUnsigned(lines[i][2], 65535)
      IN IF k \in {"core.tickrate", "core.max_rom", "core.start_address", "core.rotation"}
            /\ IsSome(n)
         THEN <<k, JNum(Unwrap(n))>>
         ELSE <<k, JStr(lines[i][2])>>]

\* The values tried for each key of the flat format.
IniValuesFor(k) ==
   CASE k \in {"core.tickrate", "core.max_rom", "core.start_address"} ->
          { JNum(0),
            JNum(20),
            JNum(65535),
            JNum(65536),
            JNum(-1),
            JStr(<<"2", "0">>),
            JStr(<<"+", "7">>),
            JStr(<<"0", "0", "7">>),
            JStr(<<"f", "a", "s", "t">>),
            JStr(<<>>),
            JNull,
            JBool(TRUE) }
     [] k = "core.rotation" ->
          { JNum(0),
            JNum(90),
            JNum(180),
            JNum(270),
            JNum(45),
            JNum(65536),
            JStr(<<"9", "0">>),
            JStr(<<"n", "o", "r", "m", "a", "l">>),
            JNull }
     [] k = "core.font" ->
          {JStr(FontIniWire(v)) : v \in Range(Fonts)}
          \cup {JStr(FontWire(v)) : v \in Range(Fonts)}
          \cup {JStr(VariantName("Octo")), JNull, JNum(0)}
     [] k = "core.touch_mode" ->
          {JStr(TouchModeIniWire(v)) : v \in Range(TouchModes)}
          \cup {JStr(RenameSnakeCase(VariantName(v))) : v \in Range(TouchModes)}
          \cup {JStr(VariantName("None")), JNull, JNum(0)}
     [] k \in IniColorKeys ->
          { JStr(<<"#", "F", "F", "C", "C", "0", "0">>),
            JStr(<<"F", "F", "C", "C", "0", "0">>),
            JStr(<<"f", "f", "c", "c", "0", "0">>),
            JStr(<<"F", "C", "0">>),
            JStr(<<"#", "1", "a", "2", "B", "3", "c">>),
            JStr(<<"G", "G", "0", "0", "0", "0">>),
            JStr(<<"F", "F", "C", "C", "0">>),
            JStr(<<"o", "c", "t", "o">>),
            JStr(<<>>),
            JStr(<<"r", "e", "d">>),
            JStr(<<"r", "g", "b", "(", "2", "5", "5", ",", "0", ",", "0", ")">>),
            JStr(<<"h", "s", "l", "(", "1", "2", "0", ",", "1", "0", "0", "%", ",",
                   "5", "0", "%", ")">>),
            JStrEscaped(<<"r", "e", "d", "\f">>),
            JStr(<<"h", "s", "l", "(", "-", "2", "0", "0", "0", "0", "0", "0", ",", "1", "0", "0", "%", ",", "5", "0", "%", ")">>),
            JStr(<<"r", "g", "b", "(", "1", "E", "3", "9", "%", ",", "0", ".", "1", "9", "6", "1", "%", ",", "-", "1", "e", "3", "9", "%", ")">>),
            JNull,
            JNum(0) }
     [] k = "quirks.lores_dxy0" ->
          {JStr(LoResDxy0Wire(v)) : v \in Range(LoResDxy0Behaviors)}
          \cup {JStr(RenameLowercase(VariantName(v))) : v \in Range(LoResDxy0Behaviors)}
          \cup {JNull, JBool(TRUE)}
     [] k \in IniFlagKeys ->
          { JStr(<<"0">>),
            JStr(<<"1">>),
            JStr(<<"2">>),
            JStr(<<"2", "5", "5">>),
            JStr(<<"2", "5", "6">>),
            JStr(<<"t", "r", "u", "e">>),
            JStr(<<"a", "b", "c">>),
            JStr(<<>>),
            JStr(<<"0", "1">>),
            JStr(<<"+", "1">>),
            JNum(0),
            JNum(1),
            JNum(2),
            JBool(TRUE),
            JNull }
     [] OTHER ->
          {JStr(<<"x">>), JNum(2), JNull}

\* The texts given to from_ini.  The JSON objects: each base, with unknown
\* keys, with keys left out, with one key given each of the values tried for
\* it, and objects that give a key twice.  The texts of key=value lines: the
\* text of tests/tests.rs, one with every key, one with some keys, one with
\* unknown keys, one with a flag that is neither 0 nor 1, the two one-line
\* texts colors.plane0=996600 and colors.background=FFAA00, the text with
\* some keys with core.rotation 90, 180, 270 and 45, and the empty text,
\* each written "key=value\r\n" throughout, "key = value\n"
\* throughout, and with the first line "key = value\n" and the others
\* "key=value\r\n" as in tests/tests.rs.
IniInputs ==
   LET bases == {<<>>, AsObject(IniOctoDefaults), AsObject(IniFull)}
       \* two members of keys the format does not know added, one before
       \* the first member and one in the middle
       IniWithUnknown(doc) ==
          << <<"core.author", JStr(<<"x">>)>> >>
          \o SubSeq(doc, 1, Len(doc) \div 2)
          \o << <<"quirks.author", JNum(2)>> >>
          \o SubSeq(doc, (Len(doc) \div 2) + 1, Len(doc))
       repeated ==
          { << <<"core.tickrate", JNum(1)>>, <<"core.tickrate", JNum(2)>> >>,
            << <<"quirks.shift", JStr(<<"1">>)>>, <<"colors.plane1", JNull>>,
               <<"quirks.shift", JStr(<<"a", "b", "c">>)>>, <<"colors.plane1", JNull>> >>,
            << <<"core.author", JNum(1)>>, <<"core.rotation", JNum(90)>>,
               <<"core.author", JNum(2)>> >> }
       objects ==
          bases
          \cup {AsObject(IniSomeKeys)}
          \cup repeated
          \cup {IniWithUnknown(b) : b \in bases \cup {AsObject(IniSomeKeys)}}
          \cup Thinned(AsObject(IniFull))
          \cup {RemoveKey(b, k) : b \in bases, k \in IniKeys}
          \cup UNION {{SetKey(b, k, v) : v \in IniValuesFor(k)} :
                        b \in bases, k \in IniKeys \cup {"core.author"}}
       half == Len(IniSomeKeys) \div 2
       withUnknown ==
          << <<"core.author", <<"x">>>> >>
          \o SubSeq(IniSomeKeys, 1, half)
          \o << <<"quirks.author", <<"2">>>> >>
          \o SubSeq(IniSomeKeys, half + 1, Len(IniSomeKeys))
       lines ==
          {<<>>, IniOctoDefaults, IniFull, IniSomeKeys, withUnknown,
           SetKey(IniSomeKeys, "quirks.shift", <<"a", "b", "c">>),
           << <<"colors.plane0", <<"9", "9", "6", "6", "0", "0">>>> >>,
           << <<"colors.background", <<"F", "F", "A", "A", "0", "0">>>> >>}
          \cup {SetKey(IniSomeKeys, "core.rotation", n) :
                  n \in {<<"9", "0">>, <<"1", "8", "0">>, <<"2", "7", "0">>, <<"4", "5">>}}
   IN {JsonText(d) : d \in objects}
      \cup {LinesText(st, d) : st \in {"tight_crlf", "spaced_lf", "first_spaced_lf"},
                               d \in lines}

\* A document and the format its reader takes it for.
Doc(fmt, text) ==
   [fmt |-> fmt, syntax |-> text.syntax, style |-> text.style, doc |-> text.doc]

Inputs ==
   {Doc("json", JsonText(d)) : d \in JsonInputs}
   \cup {Doc("ini", t) : t \in IniInputs}
   \cup {Doc("default", JsonText(<<>>))}

(* ------------------------------------------------------------------ *)
(* One set of settings written in both formats                         *)
(* ------------------------------------------------------------------ *)

\* The key of each setting in the structured and in the flat format, as the
\* two file formats name them (Octo's options object, C-Octo's octo.rc).
SettingKeys ==
   << <<"tickrate", "tickrate", "core.tickrate">>,
      <<"max_size", "maxSize", "core.max_rom">>,
      <<"screen_rotation", "screenRotation", "core.rotation">>,
      <<"font_style", "fontStyle", "core.font">>,
      <<"touch_input_mode", "touchInputMode", "core.touch_mode">>,
      <<"start_address", "startAddress", "core.start_address">>,
      <<"fill_color", "fillColor", "colors.plane1">>,
      <<"fill_color2", "fillColor2", "colors.plane2">>,
      <<"blend_color", "blendColor", "colors.plane3">>,
      <<"background_color", "backgroundColor", "colors.plane0">>,
      <<"buzz_color", "buzzColor", "colors.sound">>,
      <<"quiet_color", "quietColor", "colors.background">>,
      <<"shift", "shiftQuirks", "quirks.shift">>,
      <<"load_store", "loadStoreQuirks", "quirks.loadstore">>,
      <<"jump0", "jumpQuirks", "quirks.jump0">>,
      <<"logic", "logicQuirks", "quirks.logic">>,
      <<"clip", "clipQuirks", "quirks.clip">>,
      <<"vblank", "vBlankQuirks", "quirks.vblank">>,
      <<"vf_order", "vfOrderQuirks", "quirks.vforder">>,
      <<"lores_dxy0", "loresDXY0Quirks", "quirks.lores_dxy0">>,
      <<"res_clear", "resClearQuirks", "quirks.resclear">>,
      <<"delay_wrap", "delayWrapQuirks", "quirks.delaywrap">>,
      <<"hires_collision", "hiresCollisionQuirks", "quirks.hirescollision">>,
      <<"clip_collision", "clipCollisionQuirks", "quirks.clipcollision">>,
      <<"scroll", "scrollQuirks", "quirks.scroll">>,
      <<"overflow_i", "overflowIQuirks", "quirks.overflow_i">> >>

\* The settings of an Options value, one Option per setting name.
Setting(o, name) ==
   CASE name = "tickrate" -> o.tickrate
     [] name = "max_size" -> o.max_size
     [] name = "screen_rotation" -> Some(o.screen_rotation)
     [] name = "font_style" -> Some(o.font_style)
     [] name = "touch_input_mode" -> Some(o.touch_input_mode)
     [] name = "start_address" -> o.start_address
     [] name \in Range(ColorFields) -> o.colors[name]
     [] OTHER -> o.quirks[name]

\* The structured document that gives the settings of o, each written the
\* way Octo writes it: numbers and the rotation as numbers, quirk flags as
\* 0 / 1, colours as '#' and six digits, the other enums by name.
JsonSpelling(o) ==
   LET spelt(name, x) ==
          CASE name \in {"tickrate", "max_size", "start_address"} -> JNum(x)
            [] name = "screen_rotation" -> JNum(RotationCode(x))
            [] name = "font_style" -> JStr(FontWire(x))
            [] name = "touch_input_mode" -> JStr(TouchModeWire(x))
            [] name \in Range(ColorFields) -> JStr(Color_fmt(x))
            [] name = "lores_dxy0" -> JStr(LoResDxy0Wire(x))
            [] OTHER -> JNum(IF x THEN 1 ELSE 0)
   IN Concat([i \in 1..Len(SettingKeys) |->
                LET t == SettingKeys[i]
                IN IF IsSome(Setting(o, t[1]))
                   THEN << <<t[2], spelt(t[1], Unwrap(Setting(o, t[1])))>> >>
                   ELSE <<>>])

\* The lines of the flat text that give the settings of o, each written the
\* way octo.rc writes it: every value as text, the colours as six digits
\* (plane0 with a '#', as tests/tests.rs has it).
IniSpelling(o) ==
   LET spelt(name, x) ==
          CASE name \in {"tickrate", "max_size", "start_address"} -> ToDec(x)
            [] name = "screen_rotation" -> ToDec(RotationCode(x))
            [] name = "font_style" -> FontIniWire(x)
            [] name = "touch_input_mode" -> TouchModeIniWire(x)
            [] name = "background_color" -> Color_fmt(x)
            [] name \in Range(ColorFields) -> Tail(Color_fmt(x))
            [] name = "lores_dxy0" -> LoResDxy0Wire(x)
            [] OTHER -> IF x THEN <<"1">> ELSE <<"0">>
   IN Concat([i \in 1..Len(SettingKeys) |->
                LET t == SettingKeys[i]
                IN IF IsSome(Setting(o, t[1]))
                   THEN << <<t[3], spelt(t[1], Unwrap(Setting(o, t[1])))>> >>
                   ELSE <<>>])

(* ------------------------------------------------------------------ *)
(* The state machine: a value is obtained (decoded from an input       *)
(* document, or constructed by Default) and then converted, each       *)
(* conversion one call of the library.  An encoded document is decoded  *)
(* before the value is encoded again.                                  *)
(* ------------------------------------------------------------------ *)

NoDoc == Doc("none", JsonText(<<>>))
NoCross == [done |-> FALSE, json |-> Ok(NoValue), ini |-> Ok(NoValue)]

Init ==
   /\ input \in Inputs
   /\ opt = NoValue
   /\ res = Ok(NoValue)
   /\ out = NoDoc
   /\ encoded = NoValue
   /\ last = "init"
   /\ steps = 0
   /\ cross = NoCross
   /\ colorValue = Color(0, 0, 0)
   /\ colorText = <<>>
   /\ colorParsed = Ok(NoValue)
   /\ colorStep = "idle"

\* There is an Options value: one was decoded or constructed.
HasOptions == last # "init" /\ res.ok

\* A further conversion may be applied to the value.
CanConvert == HasOptions /\ ~cross.done /\ steps < MaxSteps + 1

\* The document the next decode reads: the input at first, afterwards the
\* output of the encoder that ran last.
Pending(fmt) ==
   \/ last = "init" /\ input.fmt = fmt
   \/ last = (IF fmt = "json" THEN "to_string" ELSE "to_ini") /\ out.fmt = fmt
PendingDoc == IF last = "init" THEN input ELSE out

\* str::parse::<Options>()
FromStr ==
   /\ Pending("json")
   /\ steps < MaxSteps + 1
   /\ res' = Options_from_str(PendingDoc.doc)
   /\ opt' = res'.val
   /\ last' = "from_str"
   /\ steps' = steps + 1
   /\ UNCHANGED <<input, out, encoded, cross, colorVars>>

\* Options::from_ini
FromIni ==
   /\ Pending("ini")
   /\ steps < MaxSteps + 1
   /\ res' = Options_from_ini(PendingDoc)
   /\ opt' = res'.val
   /\ last' = "from_ini"
   /\ steps' = steps + 1
   /\ UNCHANGED <<input, out, encoded, cross, colorVars>>

\* Options::default()
Default ==
   /\ last = "init"
   /\ input.fmt = "default"
   /\ res' = Ok(Options_default)
   /\ opt' = Options_default
   /\ last' = "default"
   /\ steps' = steps + 1
   /\ UNCHANGED <<input, out, encoded, cross, colorVars>>

\* impl fmt::Display for Options (to_string)
Display ==
   /\ CanConvert
   /\ last \notin {"to_string", "to_ini"}
   /\ out' = Doc("json", JsonText(Options_to_string(opt)))
   /\ encoded' = opt
   /\ last' = "to_string"
   /\ steps' = steps + 1
   /\ UNCHANGED <<input, opt, res, cross, colorVars>>

\* Options::to_ini
ToIni ==
   /\ CanConvert
   /\ last \notin {"to_string", "to_ini"}
   /\ out' = Doc("ini", Options_to_ini(opt))
   /\ encoded' = opt
   /\ last' = "to_ini"
   /\ steps' = steps + 1
   /\ UNCHANGED <<input, opt, res, cross, colorVars>>

\* Options -> OctoOptionsIni -> Options, the two From impls.
ViaIniRecord ==
   /\ CanConvert
   /\ last \in {"from_str", "from_ini", "default"}
   /\ opt' = OctoOptions_from(OctoOptionsIni_from(opt))
   /\ last' = "via_ini_record"
   /\ steps' = steps + 1
   /\ UNCHANGED <<input, res, out, encoded, cross, colorVars>>

\* tests/tests.rs octo_rc_deserialize: the settings of the value just
\* obtained, written as a structured document and as the lines of a flat
\* text, both decoded.
CrossDecode ==
   /\ HasOptions
   /\ steps = 1
   /\ ~cross.done
   /\ cross' = [done |-> TRUE,
                json |-> Options_from_str(JsonSpelling(opt)),
                ini |-> Options_from_ini(LinesText("first_spaced_lf", IniSpelling(opt)))]
   /\ UNCHANGED <<input, opt, res, out, encoded, last, steps, colorVars>>

Next == CrossDecode \/ FromStr \/ FromIni \/ Default \/ Display \/ ToIni \/ ViaIniRecord

Spec == Init /\ [][Next]_vars

(* ------------------------------------------------------------------ *)
(* The conversions of a single Color (color.rs)                        *)
(* ------------------------------------------------------------------ *)

\* The values tried for each of r, g and b: both ends of the u8 range, the
\* values around the one-digit / two-digit and the digit / letter borders.
\* No Options value has been decoded.
ColorInit ==
   /\ colorValue \in LET bytes == {0, 1, 9, 10, 15, 16, 17, 127, 128, 171, 255}
                     IN {Color(r, g, b) : r \in bytes, g \in bytes, b \in bytes}
   /\ colorText = <<>>
   /\ colorParsed = Ok(NoValue)
   /\ colorStep = "init"
   /\ input = Doc("default", JsonText(<<>>))
   /\ opt = NoValue
   /\ res = Ok(NoValue)
   /\ out = NoDoc
   /\ encoded = NoValue
   /\ last = "idle"
   /\ steps = 0
   /\ cross = NoCross

\* format!("{}", c)
ColorDisplay ==
   /\ colorStep = "init"
   /\ colorText' = Color_fmt(colorValue)
   /\ colorStep' = "display"
   /\ UNCHANGED <<colorValue, colorParsed, optVars>>

\* s.parse::<Color>(), s the formatted colour
ColorFromStr ==
   /\ colorStep = "display"
   /\ colorParsed' = Color_from_str(colorText)
   /\ colorStep' = "from_str"
   /\ UNCHANGED <<colorValue, colorText, optVars>>

\* s.parse::<Color>(), s the formatted colour without its first character
ColorFromStrBare ==
   /\ colorStep = "display"
   /\ colorText' = Tail(colorText)
   /\ colorParsed' = Color_from_str(Tail(colorText))
   /\ colorStep' = "from_str_bare"
   /\ UNCHANGED <<colorValue, optVars>>

\* Options::from_ini on the flat text whose one line gives the text just
\* parsed as the value of colors.plane0
ColorFromIni ==
   /\ colorStep \in {"from_str", "from_str_bare"}
   /\ res' = Options_from_ini(LinesText("tight_crlf", << <<"colors.plane0", colorText>> >>))
   /\ opt' = res'.val
   /\ colorStep' = IF colorStep = "from_str" THEN "from_ini" ELSE "from_ini_bare"
   /\ UNCHANGED <<colorValue, colorText, colorParsed, input, out, encoded, last, steps, cross>>

ColorNext == ColorDisplay \/ ColorFromStr \/ ColorFromStrBare \/ ColorFromIni

ColorSpec == ColorInit /\ [][ColorNext]_vars

(* ------------------------------------------------------------------ *)
(* Properties                                                          *)
(* ------------------------------------------------------------------ *)

\* The text the decode that ran last has read, and its members or lines.
DecodedText == IF steps = 1 THEN input ELSE out
DecodedDoc == DecodedText.doc

\* No key is given twice.
NoRepeat(doc) == \A i \in 1..Len(doc) : ~Repeats(doc, i)

\* Every entry of a structured document is accepted by the decoder of its
\* key, and no key is given twice.
JsonAccepted(doc) ==
   /\ NoRepeat(doc)
   /\ \A i \in 1..Len(doc) : JsonDecodeKey(doc[i][1], doc[i][2]).ok

\* C1: structured round trip.  Whenever an Options value has been written by
\* the structured encoder and the output parsed back, the parse succeeds and
\* yields the value that was written, equal in every field.
C1_StructuredRoundTrip ==
   (last = "from_str" /\ steps > 1) => (res.ok /\ opt = encoded)

C1_Witness ==
   /\ last = "from_str" /\ steps > 1 /\ input.fmt = "json" /\ res.ok
   /\ IsSome(encoded.tickrate)
   /\ IsSome(encoded.colors["blend_color"])
   /\ encoded.quirks["shift"] = Some(TRUE)
   /\ encoded.quirks["load_store"] = Some(FALSE)
   /\ IsSome(encoded.quirks["lores_dxy0"])
   /\ encoded.font_style = "AKouZ1"

\* C2: flat round trip.  Whenever an Options value has been written by
\* to_ini and the output read back by from_ini, from_ini succeeds and yields
\* the value that was written, equal in every field.  (It does not: to_ini
\* writes a flag as a number and from_ini takes a flag from a string only.)
C2_FlatRoundTrip ==
   (last = "from_ini" /\ steps > 1) => (res.ok /\ opt = encoded)

\* C3: cross-format equivalence.  A structured and a flat document that give
\* the same settings, each in its own format's keys and value spelling, both
\* decode, and to equal Options values.  (The flat one, a text of key=value
\* lines, does not decode.)
C3_CrossFormatEquivalence ==
   cross.done => (cross.json.ok /\ cross.ini.ok /\ cross.json.val = cross.ini.val)

\* C4: absent keys.  A structured document in which every key that is there
\* has a value its field accepts decodes successfully whatever keys are
\* missing, the empty document included; each missing optional field is None
\* and each missing enum is its default.
C4_AbsentKeys ==
   (last = "from_str" /\ JsonAccepted(DecodedDoc)) =>
      /\ res.ok
      /\ ~HasKey(DecodedDoc, "tickrate") => opt.tickrate = None
      /\ ~HasKey(DecodedDoc, "maxSize") => opt.max_size = None
      /\ ~HasKey(DecodedDoc, "startAddress") => opt.start_address = None
      /\ ~HasKey(DecodedDoc, "screenRotation") => opt.screen_rotation = "Normal"
      /\ ~HasKey(DecodedDoc, "fontStyle") => opt.font_style = "Octo"
      /\ ~HasKey(DecodedDoc, "touchInputMode") => opt.touch_input_mode = "None"
      /\ \A f \in Range(ColorFields) :
            ~HasKey(DecodedDoc, JsonColorKey(f)) => opt.colors[f] = None
      /\ \A f \in Range(QuirkFields) :
            ~HasKey(DecodedDoc, JsonQuirkKey(f)) => opt.quirks[f] = None

C4_Witness ==
   /\ last = "from_str" /\ steps = 1 /\ input.doc = <<>> /\ res.ok
   /\ opt.tickrate = None /\ opt.font_style = "Octo"
   /\ opt.colors["fill_color"] = None /\ opt.quirks["shift"] = None

\* C5: tri-state preservation.  Every conversion applied to an Options value
\* (a decode of what an encoder wrote, a passage through the INI record)
\* succeeds and leaves each of the thirteen quirk flags as it was: None stays
\* None, Some(false) stays Some(false), Some(true) stays Some(true).  (The
\* decode of what to_ini wrote fails as soon as a flag is Some.)
C5_TriStatePreserved ==
   [][HasOptions =>
         (res'.ok /\ \A f \in FlagFields : opt'.quirks[f] = opt.quirks[f])]_<<last, steps>>

\* The flag field a structured key names.
FlagOfKey(k) == CHOOSE f \in FlagFields : JsonQuirkKey(f) = k

\* Every entry of the document but the i-th is accepted by its decoder, and
\* no key is given twice.
OthersAccepted(doc, i) ==
   /\ NoRepeat(doc)
   /\ \A j \in 1..Len(doc) : j # i => JsonDecodeKey(doc[j][1], doc[j][2]).ok

\* The entry is a quirk flag given as an integer other than 0 and 1.
OtherInteger(doc, i) ==
   /\ doc[i][1] \in JsonFlagKeys
   /\ Tag(doc[i][2]) = "num"
   /\ Payload(doc[i][2]) \notin {0, 1}

\* What a flag given as true, false, 1 or 0 decodes to.
FlagGiven(v) ==
   CASE Tag(v) = "bool" -> Some(Payload(v))
     [] Tag(v) = "num" /\ Payload(v) = 1 -> Some(TRUE)
     [] Tag(v) = "num" /\ Payload(v) = 0 -> Some(FALSE)

IsFlagGiven(v) == Tag(v) = "bool" \/ (Tag(v) = "num" /\ Payload(v) \in {0, 1})

\* In a document that decodes, true and 1 give Some(true), false and 0 give
\* Some(false); a flag given as any other integer makes the parse fail.
QuirkDecodeBasics ==
   /\ res.ok =>
        \A i \in 1..Len(DecodedDoc) :
           (DecodedDoc[i][1] \in JsonFlagKeys /\ IsFlagGiven(DecodedDoc[i][2])) =>
              opt.quirks[FlagOfKey(DecodedDoc[i][1])] = FlagGiven(DecodedDoc[i][2])
   /\ \A i \in 1..Len(DecodedDoc) : OtherInteger(DecodedDoc, i) => ~res.ok

\* C6 as stated: every integer other than 0 and 1 fails with the "invalid
\* value, expected zero or one" error carrying the offending value.
C6_Original ==
   last = "from_str" =>
      /\ QuirkDecodeBasics
      /\ \A i \in 1..Len(DecodedDoc) :
            (OtherInteger(DecodedDoc, i) /\ OthersAccepted(DecodedDoc, i)) =>
               res.err = InvalidValueZeroOrOne(Payload(DecodedDoc[i][2]))

\* C6 (amended): decoding a quirk flag in the structured format, true or 1
\* yields Some(true), false or 0 yields Some(false), and every other integer
\* makes the parse fail: an integer from 2 to 255 with the "invalid value,
\* expected zero or one" error carrying the value, an integer outside 0..255
\* with the "did not match any variant of untagged enum BoolOrU8" error, which
\* does not carry it.
C6_QuirkDecode ==
   last = "from_str" =>
      /\ QuirkDecodeBasics
      /\ \A i \in 1..Len(DecodedDoc) :
            (OtherInteger(DecodedDoc, i) /\ OthersAccepted(DecodedDoc, i)) =>
               res.err = (IF Payload(DecodedDoc[i][2]) \in 2..255
                          THEN InvalidValueZeroOrOne(Payload(DecodedDoc[i][2]))
                          ELSE UntaggedNoMatch("BoolOrU8"))

C6_Witness ==
   /\ last = "from_str" /\ steps = 1 /\ ~res.ok
   /\ HasKey(input.doc, "clipQuirks")
   /\ Get(input.doc, "clipQuirks") = JNum(2)
   /\ HasKey(input.doc, "shiftQuirks")
   /\ Get(input.doc, "shiftQuirks") = JNum(0)
   /\ res.err = InvalidValueZeroOrOne(2)

\* C7 as stated: the structured encoder writes Some(true) as the integer 1
\* and Some(false) as the integer 0.
C7_Original ==
   last = "to_string" =>
      \A f \in FlagFields :
         IsSome(encoded.quirks[f]) =>
            /\ HasKey(out.doc, JsonQuirkKey(f))
            /\ Tag(Get(out.doc, JsonQuirkKey(f))) = "num"
            /\ Payload(Get(out.doc, JsonQuirkKey(f)))
                  = (IF Unwrap(encoded.quirks[f]) THEN 1 ELSE 0)

\* C7 (amended): encoding to the structured format writes every quirk flag
\* that holds Some(true) as the JSON boolean true and every flag that holds
\* Some(false) as the JSON boolean false, never as an integer.
C7_QuirksEncodedAsBooleans ==
   last = "to_string" =>
      \A f \in FlagFields :
         IsSome(encoded.quirks[f]) =>
            /\ HasKey(out.doc, JsonQuirkKey(f))
            /\ Tag(Get(out.doc, JsonQuirkKey(f))) = "bool"
            /\ Payload(Get(out.doc, JsonQuirkKey(f))) = Unwrap(encoded.quirks[f])

C7_Witness ==
   /\ last = "to_string"
   /\ encoded.quirks["clip"] = Some(TRUE)
   /\ encoded.quirks["shift"] = Some(FALSE)
   /\ Get(out.doc, "clipQuirks") = JBool(TRUE)
   /\ Get(out.doc, "shiftQuirks") = JBool(FALSE)

\* The document with each flag's 0 replaced by false and 1 by true.
Booleanised(doc) ==
   [i \in 1..Len(doc) |->
      IF doc[i][1] \in JsonFlagKeys /\ Tag(doc[i][2]) = "num"
      THEN <<doc[i][1], JBool(Payload(doc[i][2]) = 1)>>
      ELSE doc[i]]

\* Every flag of the document is given as the integer 0 or 1.
FlagsAsIntegers(doc) ==
   \A i \in 1..Len(doc) :
      doc[i][1] \in JsonFlagKeys =>
         (Tag(doc[i][2]) = "num" /\ Payload(doc[i][2]) \in {0, 1})

\* '#' and six upper-case hexadecimal digits.
IsUpperHexColor(s) ==
   /\ Len(s) = 7
   /\ s[1] = "#"
   /\ \A i \in 2..7 : s[i] \in Range(UpperHex)

\* The document names only keys of the format, among them the three enums,
\* and spells its values as the encoder does: numbers as JSON numbers,
\* colours as '#' and six upper-case digits, nothing as null.
EncoderSpelling(doc) ==
   /\ {"screenRotation", "fontStyle", "touchInputMode"} \subseteq Keys(doc)
   /\ \A i \in 1..Len(doc) :
         /\ doc[i][1] \in JsonKeys
         /\ Tag(doc[i][2]) # "null"
         /\ doc[i][1] \in {"tickrate", "maxSize", "startAddress"} =>
               Tag(doc[i][2]) = "num"
         /\ doc[i][1] \in JsonColorKeys =>
               (Tag(doc[i][2]) = "str" /\ IsUpperHexColor(Payload(doc[i][2])))

\* The JSON object a document's text denotes: its keys with their values,
\* the order of the keys and the escapes of the text forgotten.
JsonObject(doc) == [k \in Keys(doc) |-> <<Tag(Get(doc, k)), Payload(Get(doc, k))>>]

\* The input has been decoded and the result encoded again.
Reencoded == last = "to_string" /\ steps = 2 /\ input.fmt = "json"

\* C8 as stated: for any structured document whose flags are integers 0/1,
\* decoding and re-encoding yields the input object with 0 replaced by false
\* and 1 by true, everything else unchanged and no key added.
C8_Original ==
   (Reencoded /\ FlagsAsIntegers(input.doc)) =>
      JsonObject(out.doc) = JsonObject(Booleanised(input.doc))

\* C8 (amended): for any structured document whose flags are integers 0/1,
\* that gives screenRotation, fontStyle and touchInputMode, has no key the
\* format does not know and no null value, and gives its numeric fields as
\* JSON numbers and its colours as '#' and six upper-case hexadecimal digits,
\* decoding and re-encoding yields the input object with 0 replaced by false
\* and 1 by true, everything else unchanged and no key added.
C8_ReencodeBooleanises ==
   (Reencoded /\ FlagsAsIntegers(input.doc) /\ EncoderSpelling(input.doc)) =>
      JsonObject(out.doc) = JsonObject(Booleanised(input.doc))

C8_Witness ==
   /\ Reencoded /\ FlagsAsIntegers(input.doc) /\ EncoderSpelling(input.doc)
   /\ HasKey(input.doc, "fillColor") /\ HasKey(input.doc, "tickrate")
   /\ HasKey(input.doc, "clipQuirks")
   /\ Get(input.doc, "clipQuirks") = JNum(1)
   /\ Get(out.doc, "clipQuirks") = JBool(TRUE)
   /\ HasKey(input.doc, "shiftQuirks")
   /\ Get(input.doc, "shiftQuirks") = JNum(0)
   /\ Get(out.doc, "shiftQuirks") = JBool(FALSE)

\* C9: omission on None.  In the output of either encoder the key of an
\* optional field (tickrate, max_size, start_address, the six colours, the
\* thirteen flags, lores_dxy0) is there if and only if the field is Some; no
\* value written is null or empty.
C9_OmissionOnNone ==
   /\ last = "to_string" =>
        /\ HasKey(out.doc, "tickrate") <=> IsSome(encoded.tickrate)
        /\ HasKey(out.doc, "maxSize") <=> IsSome(encoded.max_size)
        /\ HasKey(out.doc, "startAddress") <=> IsSome(encoded.start_address)
        /\ \A f \in Range(ColorFields) :
              HasKey(out.doc, JsonColorKey(f)) <=> IsSome(encoded.colors[f])
        /\ \A f \in Range(QuirkFields) :
              HasKey(out.doc, JsonQuirkKey(f)) <=> IsSome(encoded.quirks[f])
        /\ \A i \in 1..Len(out.doc) : Tag(out.doc[i][2]) # "null"
   /\ last = "to_ini" =>
        /\ HasKey(out.doc, "core.tickrate") <=> IsSome(encoded.tickrate)
        /\ HasKey(out.doc, "core.max_rom") <=> IsSome(encoded.max_size)
        /\ HasKey(out.doc, "core.start_address") <=> IsSome(encoded.start_address)
        /\ \A f \in Range(ColorFields) :
              HasKey(out.doc, IniColorKey(f)) <=> IsSome(encoded.colors[f])
        /\ \A f \in Range(QuirkFields) :
              HasKey(out.doc, IniQuirkKey(f)) <=> IsSome(encoded.quirks[f])
        /\ \A i \in 1..Len(out.doc) :
              /\ Tag(out.doc[i][2]) # "null"
              /\ Tag(out.doc[i][2]) = "str" => Payload(out.doc[i][2]) # <<>>

C9_Witness ==
   /\ last = "to_ini"
   /\ IsNone(encoded.tickrate) /\ IsSome(encoded.max_size)
   /\ IsNone(encoded.colors["fill_color"]) /\ IsSome(encoded.colors["quiet_color"])
   /\ IsNone(encoded.quirks["shift"]) /\ IsSome(encoded.quirks["logic"])
   /\ ~HasKey(out.doc, "core.tickrate") /\ HasKey(out.doc, "core.max_rom")
   /\ ~HasKey(out.doc, "quirks.shift") /\ HasKey(out.doc, "quirks.logic")

\* The numeric field a structured key names.
NumericField(o, k) ==
   CASE k = "tickrate" -> o.tickrate
     [] k = "maxSize" -> o.max_size
     [] k = "startAddress" -> o.start_address

\* C10: numeric leniency.  When tickrate, maxSize or startAddress is given as
\* a string that does not parse as an unsigned 16-bit integer, the field
\* decodes to None, no error is raised and the rest of the document is decoded
\* normally.
C10_NumericLeniency ==
   last = "from_str" =>
      \A i \in 1..Len(DecodedDoc) :
         ( /\ DecodedDoc[i][1] \in {"tickrate", "maxSize", "startAddress"}
           /\ Tag(DecodedDoc[i][2]) = "str"
           /\ ParseUnsigned(Payload(DecodedDoc[i][2]), 65535) = None
           /\ OthersAccepted(DecodedDoc, i) ) =>
            /\ res.ok
            /\ NumericField(opt, DecodedDoc[i][1]) = None

\* The value of a text of decimal digits.
DecimalValue(s) ==
   LET v[i \in 0..Len(s)] == IF i = 0 THEN 0 ELSE 10 * v[i - 1] + DigitVal(s[i])
   IN v[Len(s)]

\* The text is the decimal string of a number of 0..65535.
IsDecimalU16(s) ==
   /\ Len(s) \in 1..5
   /\ \A i \in 1..Len(s) : IsDigit(s[i])
   /\ Len(s) > 1 => s[1] # "0"
   /\ DecimalValue(s) <= 65535

\* C11: in the structured format tickrate, maxSize and startAddress given as
\* the native number n of 0..65535, and given as the decimal string of n,
\* both decode to Some(n).
C11_NumberOrDecimalString ==
   last = "from_str" =>
      \A i \in 1..Len(DecodedDoc) :
         (DecodedDoc[i][1] \in {"tickrate", "maxSize", "startAddress"}
            /\ OthersAccepted(DecodedDoc, i)) =>
            /\ (Tag(DecodedDoc[i][2]) = "num" /\ Payload(DecodedDoc[i][2]) \in 0..65535) =>
                  /\ res.ok
                  /\ NumericField(opt, DecodedDoc[i][1]) = Some(Payload(DecodedDoc[i][2]))
            /\ (Tag(DecodedDoc[i][2]) = "str" /\ IsDecimalU16(Payload(DecodedDoc[i][2]))) =>
                  /\ res.ok
                  /\ NumericField(opt, DecodedDoc[i][1])
                        = Some(DecimalValue(Payload(DecodedDoc[i][2])))

\* The number an upper-case hexadecimal digit stands for.
UpperHexValue(ch) == (CHOOSE i \in 1..16 : UpperHex[i] = ch) - 1

\* C12: formatting a Color yields exactly 7 characters: '#', then r, g and b
\* in that order, each as two upper-case hexadecimal digits, zero padded.
C12_ColorFormat ==
   colorStep = "display" =>
      /\ Len(colorText) = 7
      /\ colorText[1] = "#"
      /\ \A i \in 2..7 : colorText[i] \in Range(UpperHex)
      /\ 16 * UpperHexValue(colorText[2]) + UpperHexValue(colorText[3]) = colorValue.r
      /\ 16 * UpperHexValue(colorText[4]) + UpperHexValue(colorText[5]) = colorValue.g
      /\ 16 * UpperHexValue(colorText[6]) + UpperHexValue(colorText[7]) = colorValue.b

C12_Witness ==
   /\ colorStep = "display"
   /\ colorValue = Color(255, 0, 0)
   /\ colorText = <<"#", "F", "F", "0", "0", "0", "0">>

\* C13: colour round trip.  Parsing the formatted text of a Color yields that
\* Color, and so does parsing the formatted text without its '#'; the flat
\* decoder accordingly reads colors.plane0 given in either spelling to Some
\* of that Color.  (The flat decoder reads no text of key=value lines.)
C13_ColorRoundTrip ==
   /\ colorStep \in {"from_str", "from_str_bare"} => colorParsed = Ok(colorValue)
   /\ colorStep \in {"from_ini", "from_ini_bare"} =>
         /\ colorParsed = Ok(colorValue)
         /\ res.ok
         /\ opt.colors["background_color"] = Some(colorValue)

\* The colour parser accepts the text neither as written nor with '#'
\* before it.
AcceptedNeitherWay(s) ==
   /\ ~CssColor_from_str(s).ok
   /\ ~CssColor_from_str(<<"#">> \o s).ok

\* C14: colour parse failure is fatal.  A colour text that is accepted
\* neither as written nor with '#' prepended (wrong length, a character that
\* is no hexadecimal digit) makes Color parsing fail, and a structured
\* document with such a value in any colour field fails to decode, with an
\* error and no Options value, even when every other field is valid.
C14_ColorParseFatal ==
   last = "from_str" =>
      \A i \in 1..Len(DecodedDoc) :
         ( /\ DecodedDoc[i][1] \in JsonColorKeys
           /\ Tag(DecodedDoc[i][2]) = "str"
           /\ AcceptedNeitherWay(Payload(DecodedDoc[i][2])) ) =>
            /\ Color_from_str(Payload(DecodedDoc[i][2])) = Err(ColorParseError)
            /\ ~res.ok
            /\ res.val = NoValue
            /\ OthersAccepted(DecodedDoc, i) =>
                  res.err = ColorError(Payload(DecodedDoc[i][2]))

C14_Witness ==
   /\ last = "from_str" /\ steps = 1 /\ ~res.ok
   /\ HasKey(input.doc, "tickrate") /\ HasKey(input.doc, "shiftQuirks")
   /\ HasKey(input.doc, "blendColor")
   /\ Get(input.doc, "blendColor") = JStr(<<"#", "G", "G", "0", "0", "0", "0">>)
   /\ OthersAccepted(input.doc, IndexOf(input.doc, "blendColor"))
   /\ res.err = ColorError(<<"#", "G", "G", "0", "0", "0", "0">>)

\* The colour keys of the flat format with the colour each one stands for.
FlatColorKeys ==
   << <<"colors.plane0", "background_color">>,
      <<"colors.plane1", "fill_color">>,
      <<"colors.plane2", "fill_color2">>,
      <<"colors.plane3", "blend_color">>,
      <<"colors.sound", "buzz_color">>,
      <<"colors.background", "quiet_color">> >>

\* C15: flat-format colour key mapping, in both directions.  from_ini reads
\* colors.plane0 into background_color, plane1 into fill_color, plane2 into
\* fill_color2, plane3 into blend_color, sound into buzz_color and background
\* into quiet_color, and to_ini writes each colour under the same key; no
\* key is read into or written from any other colour.  In particular the
\* text colors.plane0=996600 decodes with background_color Some(#996600) and
\* colors.background=FFAA00 with quiet_color Some(#FFAA00), every other
\* colour None.  (Neither text is decoded.)
C15_FlatColorKeys ==
   /\ (last = "from_ini" /\ steps = 1 /\ input.syntax = "lines" /\ input.doc # <<>>
         /\ NoRepeat(input.doc)
         /\ \A i \in 1..Len(input.doc) :
               /\ \E j \in 1..Len(FlatColorKeys) : FlatColorKeys[j][1] = input.doc[i][1]
               /\ Color_from_str(input.doc[i][2]).ok) =>
         /\ res.ok
         /\ \A j \in 1..Len(FlatColorKeys) :
               LET key == FlatColorKeys[j][1]
                   field == FlatColorKeys[j][2]
               IN IF HasKey(input.doc, key)
                  THEN opt.colors[field] = Some(Color_from_str(Get(input.doc, key)).val)
                  ELSE opt.colors[field] = None
   /\ (last = "from_ini" /\ res.ok) =>
         \A i \in 1..Len(FlatColorKeys) :
            LET key == FlatColorKeys[i][1]
                field == FlatColorKeys[i][2]
            IN IF HasKey(DecodedDoc, key) /\ Tag(Get(DecodedDoc, key)) = "str"
               THEN opt.colors[field]
                       = Some(Color_from_str(Payload(Get(DecodedDoc, key))).val)
               ELSE opt.colors[field] = None
   /\ last = "to_ini" =>
         /\ \A i \in 1..Len(FlatColorKeys) :
               LET key == FlatColorKeys[i][1]
                   field == FlatColorKeys[i][2]
               IN IF IsSome(encoded.colors[field])
                  THEN /\ HasKey(out.doc, key)
                       /\ Get(out.doc, key)
                             = JStr(Tail(Color_fmt(Unwrap(encoded.colors[field]))))
                  ELSE ~HasKey(out.doc, key)
         /\ Keys(out.doc) \ (Range(IniDirectKeys) \cup IniQuirkKeys)
               \subseteq {FlatColorKeys[i][1] : i \in 1..Len(FlatColorKeys)}

\* The text is a JSON object whose every member is accepted by the decoder
\* of its key, no key given twice.
IniAccepted(text) ==
   /\ text.syntax = "json"
   /\ NoRepeat(text.doc)
   /\ \A i \in 1..Len(text.doc) : IniDecodeKey(text.doc[i][1], text.doc[i][2]).ok

\* C16: decoding a flat document that gives only some keys succeeds, with
\* Some(value) exactly for the optional fields whose keys are there and None
\* for every other one; the document of core.tickrate, core.max_rom,
\* core.rotation=0, core.font=octo, core.touch_mode=none, colors.plane0,
\* quirks.shift=0 and quirks.logic=1 decodes to Some(20), Some(3215), Normal,
\* Octo, None (touch), background_color Some, shift Some(false), logic
\* Some(true) and None everywhere else.  (That document, a text of key=value
\* lines, is not decoded at all.)
C16_FlatPartialDocument ==
   /\ (last = "from_ini" /\ IniAccepted(DecodedText)) =>
         /\ res.ok
         /\ \A i \in 1..Len(DecodedDoc) :
               LET k == DecodedDoc[i][1]
                   given == Tag(DecodedDoc[i][2]) # "null"
               IN /\ k = "core.tickrate" => (IsSome(opt.tickrate) <=> given)
                  /\ k = "core.max_rom" => (IsSome(opt.max_size) <=> given)
                  /\ k = "core.start_address" => (IsSome(opt.start_address) <=> given)
                  /\ \A j \in 1..Len(FlatColorKeys) :
                        k = FlatColorKeys[j][1] =>
                           (IsSome(opt.colors[FlatColorKeys[j][2]]) <=> given)
                  /\ \A f \in Range(QuirkFields) :
                        k = IniQuirkKey(f) => (IsSome(opt.quirks[f]) <=> given)
         /\ ~HasKey(DecodedDoc, "core.tickrate") => IsNone(opt.tickrate)
         /\ ~HasKey(DecodedDoc, "core.max_rom") => IsNone(opt.max_size)
         /\ ~HasKey(DecodedDoc, "core.start_address") => IsNone(opt.start_address)
         /\ \A j \in 1..Len(FlatColorKeys) :
               ~HasKey(DecodedDoc, FlatColorKeys[j][1]) =>
                  IsNone(opt.colors[FlatColorKeys[j][2]])
         /\ \A f \in Range(QuirkFields) :
               ~HasKey(DecodedDoc, IniQuirkKey(f)) => IsNone(opt.quirks[f])
   /\ (last = "from_ini" /\ DecodedText.syntax = "lines" /\ DecodedDoc = IniSomeKeys) =>
         /\ res.ok
         /\ opt = [tickrate |-> Some(20), max_size |-> Some(3215),
                   screen_rotation |-> "Normal", font_style |-> "Octo",
                   touch_input_mode |-> "None", start_address |-> None,
                   colors |-> [f \in Range(ColorFields) |->
                                 IF f = "background_color"
                                 THEN Some(Color(153, 102, 0)) ELSE None],
                   quirks |-> [f \in Range(QuirkFields) |->
                                 CASE f = "shift" -> Some(FALSE)
                                   [] f = "logic" -> Some(TRUE)
                                   [] OTHER -> None]]

\* Six upper-case hexadecimal digits.
IsSixUpperHex(s) == Len(s) = 6 /\ \A i \in 1..6 : s[i] \in Range(UpperHex)

\* C17: colour marker by format.  The flat encoder writes every colour as
\* exactly six upper-case hexadecimal digits with no '#', the structured
\* encoder as '#' followed by six upper-case hexadecimal digits; for the same
\* Options value the two encodings of a colour differ only by that '#'.
C17_ColorMarkerByFormat ==
   /\ last = "to_ini" =>
         \A i \in 1..Len(FlatColorKeys) :
            IsSome(encoded.colors[FlatColorKeys[i][2]]) =>
               LET v == Get(out.doc, FlatColorKeys[i][1])
               IN /\ Tag(v) = "str"
                  /\ IsSixUpperHex(Payload(v))
                  /\ Get(Options_to_string(encoded), JsonColorKey(FlatColorKeys[i][2]))
                        = JStr(<<"#">> \o Payload(v))
   /\ last = "to_string" =>
         \A i \in 1..Len(FlatColorKeys) :
            IsSome(encoded.colors[FlatColorKeys[i][2]]) =>
               LET v == Get(out.doc, JsonColorKey(FlatColorKeys[i][2]))
               IN /\ Tag(v) = "str"
                  /\ Len(Payload(v)) = 7
                  /\ Payload(v)[1] = "#"
                  /\ IsSixUpperHex(Tail(Payload(v)))
                  /\ Get(Options_to_ini(encoded).doc, FlatColorKeys[i][1])
                        = JStr(Tail(Payload(v)))

C17_Witness ==
   /\ last = "to_ini"
   /\ encoded.colors["fill_color"] = Some(Color(255, 204, 0))
   /\ Get(out.doc, "colors.plane1") = JStr(<<"F", "F", "C", "C", "0", "0">>)
   /\ encoded.colors["background_color"] = Some(Color(153, 102, 0))
   /\ Get(out.doc, "colors.plane0") = JStr(<<"9", "9", "6", "6", "0", "0">>)

\* The keys of the flat format.
FlatKeys ==
   {"core.tickrate", "core.max_rom", "core.rotation", "core.font",
    "core.touch_mode", "core.start_address",
    "colors.plane0", "colors.plane1", "colors.plane2", "colors.plane3",
    "colors.sound", "colors.background",
    "quirks.shift", "quirks.loadstore", "quirks.jump0", "quirks.logic",
    "quirks.clip", "quirks.vblank", "quirks.vforder", "quirks.lores_dxy0",
    "quirks.resclear", "quirks.delaywrap", "quirks.hirescollision",
    "quirks.clipcollision", "quirks.scroll", "quirks.overflow_i"}

\* The text without the entries whose key the format does not know.
WithoutUnknown(text) ==
   [text EXCEPT !.doc = SelectSeq(text.doc, LAMBDA p : p[1] \in FlatKeys)]

\* C18: unknown keys in the flat format are ignored.  Decoding a flat
\* document to which lines with unrecognised keys have been added gives what
\* decoding the document without those lines gives, and succeeds: the text
\* of core.tickrate, core.max_rom, core.rotation, core.font,
\* core.touch_mode, colors.plane0, quirks.shift and quirks.logic with a
\* core.author and a quirks.author line added decodes, and to the value the
\* eight lines alone stand for.  (No text of lines is decoded, with the
\* added lines or without.)
C18_FlatUnknownKeysIgnored ==
   (last = "from_ini" /\ steps = 1) =>
      /\ res = Options_from_ini(WithoutUnknown(input))
      /\ (input.syntax = "lines" /\ WithoutUnknown(input).doc = IniSomeKeys
            /\ Len(input.doc) > Len(IniSomeKeys)) =>
            /\ res.ok
            /\ opt.tickrate = Some(20)
            /\ opt.colors["background_color"] = Some(Color(153, 102, 0))
            /\ opt.quirks["logic"] = Some(TRUE)

\* The spelling of each variant in the structured format.
TouchModeSpelling ==
   ("None" :> <<"n", "o", "n", "e">>) @@
   ("Swipe" :> <<"s", "w", "i", "p", "e">>) @@
   ("Seg16" :> <<"s", "e", "g", "1", "6">>) @@
   ("Seg16Fill" :> <<"s", "e", "g", "1", "6", "f", "i", "l", "l">>) @@
   ("Gamepad" :> <<"g", "a", "m", "e", "p", "a", "d">>) @@
   ("Vip" :> <<"v", "i", "p">>)
FontSpelling ==
   ("Octo" :> <<"o", "c", "t", "o">>) @@
   ("Vip" :> <<"v", "i", "p">>) @@
   ("Dream6800" :> <<"d", "r", "e", "a", "m", "6", "8", "0", "0">>) @@
   ("Eti660" :> <<"e", "t", "i", "6", "6", "0">>) @@
   ("Schip" :> <<"s", "c", "h", "i", "p">>) @@
   ("Fish" :> <<"f", "i", "s", "h">>) @@
   ("AKouZ1" :> <<"a", "k", "o", "u", "z", "1">>)
LoResDxy0Spelling ==
   ("NoOp" :> <<"n", "o", "_", "o", "p">>) @@
   ("TallSprite" :> <<"t", "a", "l", "l", "_", "s", "p", "r", "i", "t", "e">>) @@
   ("BigSprite" :> <<"b", "i", "g", "_", "s", "p", "r", "i", "t", "e">>)

\* The entry of key k is a string; read alone among valid entries it gives
\* the variant of that spelling, and a string that spells no variant fails.
ReadsBySpelling(k, spelling, got) ==
   \A i \in 1..Len(DecodedDoc) :
      (DecodedDoc[i][1] = k /\ Tag(DecodedDoc[i][2]) = "str"
         /\ OthersAccepted(DecodedDoc, i)) =>
         IF \E v \in DOMAIN spelling : spelling[v] = Payload(DecodedDoc[i][2])
         THEN res.ok /\ spelling[got] = Payload(DecodedDoc[i][2])
         ELSE ~res.ok

\* C19 as stated: each variant of TouchMode, Font and LoResDxy0Behavior is
\* written and read as the snake_case spelling of its name, word breaks as
\* underscores (Seg16Fill is "seg16_fill").
C19_Original ==
   /\ last = "to_string" =>
         /\ Get(out.doc, "touchInputMode")
               = JStr(RenameSnakeCase(VariantName(encoded.touch_input_mode)))
         /\ Get(out.doc, "fontStyle")
               = JStr(RenameSnakeCase(VariantName(encoded.font_style)))
         /\ IsSome(encoded.quirks["lores_dxy0"]) =>
               Get(out.doc, "loresDXY0Quirks")
                  = JStr(RenameSnakeCase(VariantName(Unwrap(encoded.quirks["lores_dxy0"]))))
   /\ last = "from_str" =>
         \A i \in 1..Len(DecodedDoc) :
            (DecodedDoc[i][1] = "touchInputMode"
               /\ DecodedDoc[i][2] = JStr(<<"s", "e", "g", "1", "6", "_", "f", "i", "l", "l">>)
               /\ OthersAccepted(DecodedDoc, i)) =>
               (res.ok /\ opt.touch_input_mode = "Seg16Fill")

\* C19 (amended): in the structured format each variant of TouchMode and of
\* Font is written and read as its name in lower case with nothing between
\* its words (Seg16Fill is "seg16fill", Dream6800 is "dream6800", AKouZ1 is
\* "akouz1"), and each variant of LoResDxy0Behavior as the snake_case
\* spelling of its name (TallSprite is "tall_sprite"); any other string is
\* rejected.
C19_EnumSpelling ==
   /\ last = "to_string" =>
         /\ Get(out.doc, "touchInputMode") = JStr(TouchModeSpelling[encoded.touch_input_mode])
         /\ Get(out.doc, "fontStyle") = JStr(FontSpelling[encoded.font_style])
         /\ IsSome(encoded.quirks["lores_dxy0"]) =>
               Get(out.doc, "loresDXY0Quirks")
                  = JStr(LoResDxy0Spelling[Unwrap(encoded.quirks["lores_dxy0"])])
   /\ last = "from_str" =>
         /\ ReadsBySpelling("touchInputMode", TouchModeSpelling,
                            IF res.ok THEN opt.touch_input_mode ELSE "None")
         /\ ReadsBySpelling("fontStyle", FontSpelling,
                            IF res.ok THEN opt.font_style ELSE "Octo")
         /\ ReadsBySpelling("loresDXY0Quirks", LoResDxy0Spelling,
                            IF res.ok /\ IsSome(opt.quirks["lores_dxy0"])
                            THEN Unwrap(opt.quirks["lores_dxy0"]) ELSE "NoOp")
         /\ \A i \in 1..Len(DecodedDoc) :
               (DecodedDoc[i][1] = "loresDXY0Quirks" /\ Tag(DecodedDoc[i][2]) = "str"
                  /\ res.ok) => IsSome(opt.quirks["lores_dxy0"])

C19_Witness ==
   /\ last = "to_string"
   /\ encoded.touch_input_mode = "Seg16Fill"
   /\ Get(out.doc, "touchInputMode") = JStr(<<"s", "e", "g", "1", "6", "f", "i", "l", "l">>)
   /\ encoded.font_style = "AKouZ1"
   /\ Get(out.doc, "fontStyle") = JStr(<<"a", "k", "o", "u", "z", "1">>)
   /\ encoded.quirks["lores_dxy0"] = Some("TallSprite")
   /\ Get(out.doc, "loresDXY0Quirks")
         = JStr(<<"t", "a", "l", "l", "_", "s", "p", "r", "i", "t", "e">>)

\* The number each ScreenRotation stands for.
RotationNumber ==
   ("Normal" :> 0) @@ ("ClockWise" :> 90) @@ ("UpsideDown" :> 180) @@
   ("CounterClockWise" :> 270)

\* The text is a JSON object in which every member but the i-th is accepted
\* by its decoder, no key given twice.
IniOthersAccepted(text, i) ==
   /\ text.syntax = "json"
   /\ NoRepeat(text.doc)
   /\ \A j \in 1..Len(text.doc) :
         j # i => IniDecodeKey(text.doc[j][1], text.doc[j][2]).ok

\* C20: ScreenRotation is a number in both formats, never the variant's
\* name: Normal is 0, ClockWise 90, UpsideDown 180, CounterClockWise 270.
\* Decoding maps exactly these four numbers back to the same variants; any
\* other number, and any text that is no number, is rejected with an error.
\* In the flat format the line core.rotation=90 among lines that are
\* otherwise well formed decodes to ClockWise, likewise 0, 180 and 270, and
\* core.rotation=45 is rejected.  (No text of lines is decoded, whatever its
\* core.rotation.)
C20_ScreenRotationCodes ==
   /\ (last = "from_ini" /\ steps = 1 /\ input.syntax = "lines"
         /\ HasKey(input.doc, "core.rotation")
         /\ RemoveKey(input.doc, "core.rotation") = RemoveKey(IniSomeKeys, "core.rotation")) =>
         LET n == ParseUnsigned(Get(input.doc, "core.rotation"), 65535)
         IN IF IsSome(n) /\ \E v \in DOMAIN RotationNumber : RotationNumber[v] = Unwrap(n)
            THEN res.ok /\ RotationNumber[opt.screen_rotation] = Unwrap(n)
            ELSE ~res.ok
   /\ last = "to_string" =>
         Get(out.doc, "screenRotation") = JNum(RotationNumber[encoded.screen_rotation])
   /\ last = "to_ini" =>
         Get(out.doc, "core.rotation") = JNum(RotationNumber[encoded.screen_rotation])
   /\ last = "from_str" =>
         \A i \in 1..Len(DecodedDoc) :
            (DecodedDoc[i][1] = "screenRotation" /\ OthersAccepted(DecodedDoc, i)) =>
               IF Tag(DecodedDoc[i][2]) = "num"
                  /\ \E v \in DOMAIN RotationNumber :
                        RotationNumber[v] = Payload(DecodedDoc[i][2])
               THEN res.ok /\ RotationNumber[opt.screen_rotation] = Payload(DecodedDoc[i][2])
               ELSE ~res.ok
   /\ last = "from_ini" =>
         \A i \in 1..Len(DecodedDoc) :
            (IniOthersAccepted(DecodedText, i) /\ DecodedDoc[i][1] = "core.rotation") =>
               IF Tag(DecodedDoc[i][2]) = "num"
                  /\ \E v \in DOMAIN RotationNumber :
                        RotationNumber[v] = Payload(DecodedDoc[i][2])
               THEN res.ok /\ RotationNumber[opt.screen_rotation] = Payload(DecodedDoc[i][2])
               ELSE ~res.ok

\* The lines of the flat format in the order the claim gives them, each with
\* the setting it stands for.
FlatLineOrder ==
   << <<"core.tickrate", "tickrate">>,
      <<"core.max_rom", "max_size">>,
      <<"core.rotation", "screen_rotation">>,
      <<"core.font", "font_style">>,
      <<"core.touch_mode", "touch_input_mode">>,
      <<"core.start_address", "start_address">>,
      <<"colors.plane1", "fill_color">>,
      <<"colors.plane2", "fill_color2">>,
      <<"colors.plane3", "blend_color">>,
      <<"colors.plane0", "background_color">>,
      <<"colors.sound", "buzz_color">>,
      <<"colors.background", "quiet_color">>,
      <<"quirks.shift", "shift">>,
      <<"quirks.loadstore", "load_store">>,
      <<"quirks.jump0", "jump0">>,
      <<"quirks.logic", "logic">>,
      <<"quirks.clip", "clip">>,
      <<"quirks.vblank", "vblank">>,
      <<"quirks.vforder", "vf_order">>,
      <<"quirks.lores_dxy0", "lores_dxy0">>,
      <<"quirks.resclear", "res_clear">>,
      <<"quirks.delaywrap", "delay_wrap">>,
      <<"quirks.hirescollision", "hires_collision">>,
      <<"quirks.clipcollision", "clip_collision">>,
      <<"quirks.scroll", "scroll">>,
      <<"quirks.overflow_i", "overflow_i">> >>

\* C21: the text to_ini returns has one line per field that is there, in the
\* fixed order core.tickrate, core.max_rom, core.rotation, core.font,
\* core.touch_mode, core.start_address, colors.plane1, plane2, plane3, plane0,
\* sound, background, then the quirks from shift to overflow_i; each line is
\* the key, '=', the value and "\r\n", with no space anywhere, and a quirk
\* flag's value is 1 or 0.  (The text to_ini returns is that of a JSON
\* object, not one of lines.)
C21_ToIniShape ==
   last = "to_ini" =>
      LET there == SelectSeq(FlatLineOrder, LAMBDA p : IsSome(Setting(encoded, p[2])))
      IN /\ out.syntax = "lines"
         /\ out.style = "tight_crlf"
         /\ Len(out.doc) = Len(there)
         /\ \A k \in 1..Len(there) :
               /\ out.doc[k][1] = there[k][1]
               /\ there[k][2] \in FlagFields =>
                     out.doc[k][2]
                        = (IF Unwrap(Setting(encoded, there[k][2])) THEN <<"1">> ELSE <<"0">>)

\* What the lines of tests/tests.rs stand for.
OctoDefaultsOptions ==
   [tickrate |-> Some(20), max_size |-> Some(3215),
    screen_rotation |-> "Normal", font_style |-> "Octo",
    touch_input_mode |-> "None", start_address |-> None,
    colors |-> ("fill_color" :> Some(Color(255, 204, 0))) @@
               ("fill_color2" :> Some(Color(255, 102, 0))) @@
               ("blend_color" :> Some(Color(102, 34, 0))) @@
               ("background_color" :> Some(Color(153, 102, 0))) @@
               ("buzz_color" :> Some(Color(255, 170, 0))) @@
               ("quiet_color" :> Some(Color(0, 0, 0))),
    quirks |-> [f \in Range(QuirkFields) |->
                  CASE f \in {"shift", "load_store", "jump0", "vf_order"} -> Some(FALSE)
                    [] f \in {"logic", "clip", "vblank"} -> Some(TRUE)
                    [] OTHER -> None]]

\* C22: what from_ini returns does not depend on whether a line is written
\* key = value or key=value nor on whether it ends in "\n" or "\r\n", texts
\* that mix the styles included: it is what from_ini returns for the same
\* lines written key=value and ended by "\r\n", and the lines of
\* tests/tests.rs are read to the settings they give in each of the styles.
\* (No text of lines is read: every one is refused as no JSON value.)
C22_GrammarTolerance ==
   (last = "from_ini" /\ steps = 1 /\ input.syntax = "lines") =>
      /\ res = Options_from_ini(LinesText("tight_crlf", input.doc))
      /\ input.doc = IniOctoDefaults => (res.ok /\ opt = OctoDefaultsOptions)

\* The value is a string whose text is a numeral of 0 or of 1.
IsZeroOrOne(v) ==
   /\ Tag(v) = "str"
   /\ ParseUnsigned(Payload(v), 255) \in {Some(0), Some(1)}

\* C23: flat-format quirk strictness.  For every quirk flag key, from_ini on
\* a document whose value for that key is anything other than 0 or 1 (2, 256,
\* true, abc) returns an error value to the caller: it never panics and never
\* yields an Options value.  (A value that is no u8 makes it panic.)
C23_FlatQuirkStrictness ==
   last = "from_ini" =>
      \A i \in 1..Len(DecodedDoc) :
         ( /\ IniOthersAccepted(DecodedText, i)
           /\ DecodedDoc[i][1] \in IniFlagKeys
           /\ ~IsZeroOrOne(DecodedDoc[i][2]) ) =>
            /\ ~res.ok
            /\ res.val = NoValue
            /\ res.err[1] # "panic"

\* The palette of the claim: fill white, fill2 yellow, blend red, background
\* black, buzz (153,0,0), quiet (51,0,0).
DefaultPalette ==
   ("fill_color" :> Some(Color(255, 255, 255))) @@
   ("fill_color2" :> Some(Color(255, 255, 0))) @@
   ("blend_color" :> Some(Color(255, 0, 0))) @@
   ("background_color" :> Some(Color(0, 0, 0))) @@
   ("buzz_color" :> Some(Color(153, 0, 0))) @@
   ("quiet_color" :> Some(Color(51, 0, 0)))

\* A document has been decoded that gives none of the six colour keys.
DecodedWithoutColors ==
   \/ last = "from_str" /\ res.ok /\ Keys(DecodedDoc) \cap JsonColorKeys = {}
   \/ last = "from_ini" /\ res.ok
         /\ Keys(DecodedDoc) \cap {FlatColorKeys[i][1] : i \in 1..Len(FlatColorKeys)} = {}

\* C24 as stated: in both decoders, a document with none of the six colour
\* keys decodes to an Options whose colors is Colors::default(), the palette.
C24_Original ==
   DecodedWithoutColors => opt.colors = DefaultPalette

\* C24 (amended): in both decoders, a document with none of the six colour
\* keys decodes to an Options whose six colours are all None; the palette of
\* Colors::default() is what Options::default() has, and only that.
C24_AbsentColorsAreNone ==
   /\ DecodedWithoutColors => \A f \in DOMAIN DefaultPalette : opt.colors[f] = None
   /\ last = "default" => opt.colors = DefaultPalette

C24_Witness ==
   /\ last = "from_ini" /\ steps = 1 /\ res.ok
   /\ input.syntax = "json"
   /\ Keys(input.doc) = {"core.tickrate", "core.max_rom", "core.rotation", "core.font",
                         "core.touch_mode", "core.start_address"}
   /\ opt.tickrate = Some(1000)
   /\ \A f \in DOMAIN DefaultPalette : opt.colors[f] = None

\* The camelCase form of the name of each field of Options, Colors and Quirks.
CamelCaseOf ==
   ("tickrate" :> "tickrate") @@ ("max_size" :> "maxSize") @@
   ("screen_rotation" :> "screenRotation") @@ ("font_style" :> "fontStyle") @@
   ("touch_input_mode" :> "touchInputMode") @@ ("start_address" :> "startAddress") @@
   ("fill_color" :> "fillColor") @@ ("fill_color2" :> "fillColor2") @@
   ("blend_color" :> "blendColor") @@ ("background_color" :> "backgroundColor") @@
   ("buzz_color" :> "buzzColor") @@ ("quiet_color" :> "quietColor") @@
   ("shift" :> "shift") @@ ("load_store" :> "loadStore") @@ ("jump0" :> "jump0") @@
   ("logic" :> "logic") @@ ("clip" :> "clip") @@ ("vblank" :> "vblank") @@
   ("vf_order" :> "vfOrder") @@ ("lores_dxy0" :> "loresDxy0") @@
   ("res_clear" :> "resClear") @@ ("delay_wrap" :> "delayWrap") @@
   ("hires_collision" :> "hiresCollision") @@ ("clip_collision" :> "clipCollision") @@
   ("scroll" :> "scroll") @@ ("overflow_i" :> "overflowI")

\* The key of each field in Octo's options object: as above for Options and
\* Colors, the quirk's name in Octo followed by "Quirks" for Quirks.
OctoKeyOf ==
   ("shift" :> "shiftQuirks") @@ ("load_store" :> "loadStoreQuirks") @@
   ("jump0" :> "jumpQuirks") @@ ("logic" :> "logicQuirks") @@
   ("clip" :> "clipQuirks") @@ ("vblank" :> "vBlankQuirks") @@
   ("vf_order" :> "vfOrderQuirks") @@ ("lores_dxy0" :> "loresDXY0Quirks") @@
   ("res_clear" :> "resClearQuirks") @@ ("delay_wrap" :> "delayWrapQuirks") @@
   ("hires_collision" :> "hiresCollisionQuirks") @@
   ("clip_collision" :> "clipCollisionQuirks") @@
   ("scroll" :> "scrollQuirks") @@ ("overflow_i" :> "overflowIQuirks") @@
   CamelCaseOf

\* Every field is written to the key the table gives it and to no other, as
\* a value of the top-level object (a number, a string or a boolean), and is
\* read from that key and from no other.
KeysAre(table) ==
   /\ last = "to_string" =>
         /\ \A n \in DOMAIN table :
               IsSome(Setting(encoded, n)) <=> HasKey(out.doc, table[n])
         /\ Keys(out.doc) \subseteq {table[n] : n \in DOMAIN table}
         /\ \A i \in 1..Len(out.doc) : Tag(out.doc[i][2]) \in {"num", "str", "bool"}
   /\ (last = "from_str" /\ res.ok) =>
         \A n \in DOMAIN table :
            /\ (HasKey(DecodedDoc, table[n]) /\ IsFlagGiven(Get(DecodedDoc, table[n])))
                  => IsSome(Setting(opt, n))
            /\ ~HasKey(DecodedDoc, table[n]) =>
                  CASE n = "screen_rotation" -> opt.screen_rotation = "Normal"
                    [] n = "font_style" -> opt.font_style = "Octo"
                    [] n = "touch_input_mode" -> opt.touch_input_mode = "None"
                    [] OTHER -> IsNone(Setting(opt, n))

\* C25 as stated: every field of Options, Colors and Quirks has as its key
\* the camelCase form of its name, nothing added before or after it.
C25_Original == KeysAre(CamelCaseOf)

\* C25 (amended): every field of Options and Colors is written to and read
\* from the single top-level key that is the camelCase form of its name; every
\* field of Quirks has the key its rename gives it, which ends in "Quirks":
\* shiftQuirks, loadStoreQuirks, jumpQuirks, logicQuirks, clipQuirks,
\* vBlankQuirks, vfOrderQuirks, loresDXY0Quirks, resClearQuirks,
\* delayWrapQuirks, hiresCollisionQuirks, clipCollisionQuirks, scrollQuirks,
\* overflowIQuirks.  Colors and Quirks are flattened into the same object.
C25_KeyNaming == KeysAre(OctoKeyOf)

C25_Witness ==
   /\ last = "to_string"
   /\ IsSome(encoded.max_size) /\ HasKey(out.doc, "maxSize")
   /\ IsSome(encoded.colors["fill_color2"]) /\ HasKey(out.doc, "fillColor2")
   /\ IsSome(encoded.quirks["jump0"]) /\ HasKey(out.doc, "jumpQuirks")
   /\ IsSome(encoded.quirks["vblank"]) /\ HasKey(out.doc, "vBlankQuirks")
   /\ IsNone(encoded.quirks["scroll"]) /\ ~HasKey(out.doc, "scrollQuirks")

\* C26: Options::default() enables no quirk: each of the thirteen quirk flags
\* (shift, load_store, jump0, logic, clip, vblank, vf_order, res_clear,
\* delay_wrap, hires_collision, clip_collision, scroll, overflow_i) is
\* Some(false), and lores_dxy0 is Some(BigSprite).
C26_DefaultEnablesNoQuirk ==
   last = "default" =>
      /\ \A f \in {"shift", "load_store", "jump0", "logic", "clip", "vblank",
                   "vf_order", "res_clear", "delay_wrap", "hires_collision",
                   "clip_collision", "scroll", "overflow_i"} :
            opt.quirks[f] = Some(FALSE)
      /\ opt.quirks["lores_dxy0"] = Some("BigSprite")

\* C27: encoding never panics.  For every Options value, whatever fields of it
\* are None, to_ini and the structured encoder both return their output:
\* without_hash and int_from_some_bool, which unwrap their argument, are not
\* called for a field that is None, so no line of the flat output is missing
\* its value and a None colour or flag has no line and no key at all.
C27_EncodingNeverPanics ==
   /\ last = "to_ini" =>
         /\ \A i \in 1..Len(out.doc) : Tag(out.doc[i][2]) \in {"num", "str"}
         /\ \A i \in 1..Len(FlatColorKeys) :
               IsNone(encoded.colors[FlatColorKeys[i][2]]) =>
                  ~HasKey(out.doc, FlatColorKeys[i][1])
         /\ \A i \in 1..Len(FlatLineOrder) :
               ( /\ FlatLineOrder[i][2] \in FlagFields
                 /\ IsNone(encoded.quirks[FlatLineOrder[i][2]]) ) =>
                  ~HasKey(out.doc, FlatLineOrder[i][1])
   /\ last = "to_string" =>
         /\ \A i \in 1..Len(out.doc) : Tag(out.doc[i][2]) \in {"num", "str", "bool"}
         /\ \A n \in DOMAIN OctoKeyOf :
               IsNone(Setting(encoded, n)) => ~HasKey(out.doc, OctoKeyOf[n])

C27_Witness ==
   /\ last = "to_ini"
   /\ IsNone(encoded.tickrate)
   /\ \A f \in Range(ColorFields) : IsNone(encoded.colors[f])
   /\ \A f \in Range(QuirkFields) : IsNone(encoded.quirks[f])
   /\ out.doc = << <<"core.rotation", JNum(0)>>,
                   <<"core.font", JStr(<<"o", "c", "t", "o">>)>>,
                   <<"core.touch_mode", JStr(<<"n", "o", "n", "e">>)>> >>

\* The text is the numeral of an integer outside 0..65535: a '-' and digits,
\* or digits whose value is over 65535.
IsOutOfRangeNumeral(s) ==
   IF Len(s) > 1 /\ s[1] = "-"
   THEN \A i \in 2..Len(s) : IsDigit(s[i])
   ELSE /\ Len(s) > 0
        /\ \A i \in 1..Len(s) : IsDigit(s[i])
        /\ DecimalValue(s) > 65535

\* C28: range asymmetry of the tolerant numeric codec.  In the structured
\* format tickrate, maxSize or startAddress given as a JSON number outside
\* 0..65535 (70000, -1) makes the whole parse fail, whereas the same digits
\* given as a string ("70000", "-1") decode to None without error.
C28_RangeAsymmetry ==
   last = "from_str" =>
      \A i \in 1..Len(DecodedDoc) :
         (DecodedDoc[i][1] \in {"tickrate", "maxSize", "startAddress"}
            /\ OthersAccepted(DecodedDoc, i)) =>
            /\ (Tag(DecodedDoc[i][2]) = "num" /\ Payload(DecodedDoc[i][2]) \notin 0..65535)
                  => ~res.ok
            /\ (Tag(DecodedDoc[i][2]) = "str" /\ IsOutOfRangeNumeral(Payload(DecodedDoc[i][2])))
                  => (res.ok /\ NumericField(opt, DecodedDoc[i][1]) = None)

\* The keys of the structured format, those of Options, Colors and Quirks.
StructuredKeys ==
   {"tickrate", "maxSize", "screenRotation", "fontStyle", "touchInputMode",
    "startAddress",
    "fillColor", "fillColor2", "blendColor", "backgroundColor", "buzzColor",
    "quietColor",
    "shiftQuirks", "loadStoreQuirks", "jumpQuirks", "logicQuirks",
    "clipQuirks", "vBlankQuirks", "vfOrderQuirks", "loresDXY0Quirks",
    "resClearQuirks", "delayWrapQuirks", "hiresCollisionQuirks",
    "clipCollisionQuirks", "scrollQuirks", "overflowIQuirks"}

\* The object without the members whose key no struct names.
WithoutUnknownMembers(doc) == SelectSeq(doc, LAMBDA p : p[1] \in StructuredKeys)

\* C29: unknown keys in the structured format are ignored.  Decoding an
\* object to which members with keys of none of Options, Colors and Quirks
\* were added gives what decoding the object without them gives, and
\* succeeds when that does.
C29_UnknownKeysIgnored ==
   (last = "from_str" /\ steps = 1) =>
      res = Options_from_str(WithoutUnknownMembers(input.doc))

C29_Witness ==
   /\ last = "from_str" /\ steps = 1 /\ res.ok
   /\ HasKey(input.doc, "author") /\ input.doc[1][1] = "author"
   /\ HasKey(input.doc, "enableXO") /\ HasKey(input.doc, "shift_quirks")
   /\ Len(WithoutUnknownMembers(input.doc)) = Len(input.doc) - 3
   /\ HasKey(input.doc, "shiftQuirks") /\ IsSome(opt.quirks["shift"])
   /\ IsSome(opt.tickrate) /\ IsSome(opt.colors["background_color"])

\* The members an encoding of the three enums at their defaults has.
DefaultEnumMembers ==
   << <<"screenRotation", JNum(0)>>,
      <<"fontStyle", JStr(<<"o", "c", "t", "o">>)>>,
      <<"touchInputMode", JStr(<<"n", "o", "n", "e">>)>> >>

\* C30: the three enums that are not Options are always emitted.  Every
\* structured encoding has the keys screenRotation, fontStyle and
\* touchInputMode and every flat encoding has core.rotation, core.font and
\* core.touch_mode, whatever the value holds; and the structured encoding
\* of the value decoded from {} is exactly these three members with 0,
\* "octo" and "none".
C30_EnumsAlwaysEmitted ==
   /\ last = "to_string" =>
         {"screenRotation", "fontStyle", "touchInputMode"} \subseteq Keys(out.doc)
   /\ last = "to_ini" =>
         {"core.rotation", "core.font", "core.touch_mode"} \subseteq Keys(out.doc)
   /\ (last = "to_string" /\ steps = 2 /\ input.fmt = "json" /\ input.doc = <<>>) =>
         out.doc = DefaultEnumMembers

C30_Witness ==
   /\ last = "to_string" /\ steps = 2
   /\ input.fmt = "json" /\ input.doc = <<>>
   /\ encoded.screen_rotation = "Normal" /\ encoded.font_style = "Octo"
   /\ encoded.touch_input_mode = "None" /\ IsNone(encoded.tickrate)
   /\ Len(out.doc) = 3

====
